---------------------------- MODULE Spec2Model ----------------------------
(***************************************************************************)
(* A model of katcha's seed command (src/cli/commands/seed.py) and of the  *)
(* dependency ordering it relies on (src/cli/commands/schema.py).          *)
(*                                                                         *)
(* The run of seed() is a state machine whose control point is pc:         *)
(*   start -> table -> row -> col -> insert -> row ... -> commit1          *)
(*         -> sample -> update -> commit2 -> summary -> table ... -> done  *)
(* with the abnormal ends config_error, cyclic and failed.                 *)
(* The store (the database behind conn) is modelled as a recorder: what    *)
(* was executed, what is pending, what is committed.  Every execute may    *)
(* raise, and the store may or may not hand back a lastrowid.              *)
(***************************************************************************)
EXTENDS Integers, Sequences, FiniteSets, TLC

\* ------------------------------------------------------------------ bounds
\* Largest row count a configuration asks for.
MaxRows == 2
\* Number of distinct values the faker can return for one column.
NumVals == 2
\* Largest version number a configuration file starts with.
MaxVersion == 2
\* Number of runs of the build command on one configuration file.
MaxBuilds == 2

\* ------------------------------------------------------- program constants
\* seed.py:269  max_attempts = 100 if is_composite_pk else 1
MaxAttempts == 100
\* seed.py:303  row_data[col_name] = 1  # Fallback
FallbackKey == 1

\* ------------------------------------------------------------------ values
\* Python values are encoded as tuples of integers, so that any two of them
\* can be compared:  None = <<>>, int n = <<0, n>>, str = <<1, c1, .., ck>>
\* (characters as codes: digits 0..9, "_" = 10, letters from 11), True = <<2, 1>>.
NULL == << >>
IntVal(n) == <<0, n>>
StrVal(chars) == <<1>> \o chars
TRUEVAL == <<2, 1>>

IsInt(v) == Len(v) = 2 /\ v[1] = 0

\* Python truthiness of a lastrowid: None and 0 are falsy.
Truthy(v) == v # NULL /\ v # IntVal(0)

RECURSIVE Digits(_)
\* str(n) for n >= 0, as character codes.
Digits(n) == IF n < 10 THEN <<n>> ELSE Digits(n \div 10) \o <<n % 10>>

\* str(v) for an int, None or a str; "None" as the codes of N, o, n, e
\* (a = 11 .. z = 36, A = 37 .. Z = 62).
PyStr(v) ==
    IF IsInt(v) THEN StrVal(Digits(v[2]))
    ELSE IF v = NULL THEN StrVal(<<50, 25, 24, 15>>)
    ELSE v

\* A fallback that leaves the suffix out.
SuffixedNot(base, n) == PyStr(base)

\* f"{base}_{n}"
Suffixed(base, n) == PyStr(base) \o <<10>> \o Digits(n)

\* --------------------------------------------------------- schema metadata
\* What the SQLAlchemy inspector returns for a database.
Col(name, type, nullable) == [name |-> name, type |-> type, nullable |-> nullable]
Fk(col, ref_table, ref_col) == [col |-> col, ref_table |-> ref_table, ref_col |-> ref_col]
Tbl(columns, pk, fks, unique) ==
    [columns |-> columns, pk |-> pk, fks |-> fks, unique |-> unique]

\* users(id PK auto, email unique, referred_by FK self)
DbUsers ==
    [name |-> "users", tables |-> <<"users">>,
     def |-> [t \in {"users"} |->
        Tbl(<<Col("id", "INTEGER", FALSE), Col("email", "TEXT", FALSE),
              Col("referred_by", "INTEGER", TRUE)>>,
            {"id"}, <<Fk("referred_by", "users", "id")>>, {"email"})]]

\* orders(id PK, customer_id FK -> customers.id, order_number unique)
DbShop ==
    [name |-> "shop", tables |-> <<"orders", "customers">>,
     def |-> [t \in {"orders", "customers"} |->
        IF t = "customers"
        THEN Tbl(<<Col("id", "INTEGER", FALSE), Col("meta", "JSON", TRUE)>>,
                 {"id"}, << >>, {})
        ELSE Tbl(<<Col("id", "INTEGER", FALSE), Col("customer_id", "INTEGER", FALSE),
                   Col("order_number", "TEXT", FALSE)>>,
                 {"id"}, <<Fk("customer_id", "customers", "id")>>, {"order_number"})]]

\* orders.customer_code references customers.code, a unique column that is
\* not the primary key of customers.
DbCode ==
    [name |-> "code", tables |-> <<"orders", "customers">>,
     def |-> [t \in {"orders", "customers"} |->
        IF t = "customers"
        THEN Tbl(<<Col("id", "INTEGER", FALSE), Col("code", "TEXT", FALSE)>>,
                 {"id"}, << >>, {"code"})
        ELSE Tbl(<<Col("id", "INTEGER", FALSE), Col("customer_code", "TEXT", TRUE)>>,
                 {"id"}, <<Fk("customer_code", "customers", "code")>>, {})]]

\* enrollments(student_id FK, course_id FK, PRIMARY KEY(student_id, course_id))
DbEnroll ==
    [name |-> "enroll", tables |-> <<"enrollments", "students", "courses">>,
     def |-> [t \in {"enrollments", "students", "courses"} |->
        IF t = "enrollments"
        THEN Tbl(<<Col("student_id", "INTEGER", FALSE), Col("course_id", "INTEGER", FALSE)>>,
                 {"student_id", "course_id"},
                 <<Fk("student_id", "students", "id"), Fk("course_id", "courses", "id")>>, {})
        ELSE Tbl(<<Col("id", "INTEGER", FALSE), Col("meta", "JSON", TRUE)>>,
                 {"id"}, << >>, {})]]

\* a and b reference each other; c stands alone.
DbCycle ==
    [name |-> "cycle", tables |-> <<"c", "a", "b">>,
     def |-> [t \in {"a", "b", "c"} |->
        IF t = "a"
        THEN Tbl(<<Col("id", "INTEGER", FALSE), Col("b_id", "INTEGER", TRUE)>>,
                 {"id"}, <<Fk("b_id", "b", "id")>>, {})
        ELSE IF t = "b"
        THEN Tbl(<<Col("id", "INTEGER", FALSE), Col("a_id", "INTEGER", TRUE)>>,
                 {"id"}, <<Fk("a_id", "a", "id")>>, {})
        ELSE Tbl(<<Col("id", "INTEGER", FALSE)>>, {"id"}, << >>, {})]]

\* profiles.account_id is at once the primary key and a foreign key;
\* profiles.parent_id references profiles itself.
DbProfile ==
    [name |-> "profile", tables |-> <<"profiles", "accounts">>,
     def |-> [t \in {"profiles", "accounts"} |->
        IF t = "accounts"
        THEN Tbl(<<Col("id", "TEXT", FALSE)>>, {"id"}, << >>, {})
        ELSE Tbl(<<Col("account_id", "TEXT", FALSE), Col("parent_id", "TEXT", TRUE)>>,
                 {"account_id"},
                 <<Fk("account_id", "accounts", "id"),
                   Fk("parent_id", "profiles", "account_id")>>, {})]]

\* passports.sponsor_id and passports.person_id are unique foreign keys,
\* the first nullable, the second not.
DbPassport ==
    [name |-> "passport", tables |-> <<"passports", "persons">>,
     def |-> [t \in {"passports", "persons"} |->
        IF t = "persons"
        THEN Tbl(<<Col("id", "INTEGER", FALSE), Col("meta", "JSON", TRUE)>>,
                 {"id"}, << >>, {})
        ELSE Tbl(<<Col("id", "INTEGER", FALSE), Col("sponsor_id", "INTEGER", TRUE),
                   Col("person_id", "INTEGER", FALSE)>>,
                 {"id"},
                 <<Fk("sponsor_id", "persons", "id"), Fk("person_id", "persons", "id")>>,
                 {"sponsor_id", "person_id"})]]

\* counters(id PK auto): a table whose only column is left to the store.
DbBare ==
    [name |-> "bare", tables |-> <<"counters">>,
     def |-> [t \in {"counters"} |->
        Tbl(<<Col("id", "INTEGER", FALSE)>>, {"id"}, << >>, {})]]

\* notes(id PK auto, name, body): columns without any constraint
DbNotes ==
    [name |-> "notes", tables |-> <<"notes">>,
     def |-> [t \in {"notes"} |->
        Tbl(<<Col("id", "INTEGER", FALSE), Col("name", "TEXT", FALSE),
              Col("body", "TEXT", TRUE), Col("meta", "JSON", FALSE)>>,
            {"id"}, << >>, {})]]

\* grades.student_id references a column of enrollments, whose primary key
\* is composite.
DbGrades ==
    [name |-> "grades", tables |-> <<"grades", "enrollments">>,
     def |-> [t \in {"grades", "enrollments"} |->
        IF t = "enrollments"
        THEN Tbl(<<Col("student_id", "INTEGER", FALSE), Col("course_id", "INTEGER", FALSE)>>,
                 {"student_id", "course_id"}, << >>, {})
        ELSE Tbl(<<Col("id", "INTEGER", FALSE), Col("student_id", "INTEGER", FALSE)>>,
                 {"id"}, <<Fk("student_id", "enrollments", "student_id")>>, {})]]

\* permits.person_id and permits.visa_id are unique foreign keys to two
\* tables, neither nullable.
DbPermit ==
    [name |-> "permit", tables |-> <<"permits", "persons", "visas">>,
     def |-> [t \in {"permits", "persons", "visas"} |->
        IF t = "permits"
        THEN Tbl(<<Col("id", "INTEGER", FALSE), Col("person_id", "INTEGER", FALSE),
                   Col("visa_id", "INTEGER", FALSE)>>,
                 {"id"},
                 <<Fk("person_id", "persons", "id"), Fk("visa_id", "visas", "id")>>,
                 {"person_id", "visa_id"})
        ELSE Tbl(<<Col("id", "INTEGER", FALSE), Col("meta", "JSON", TRUE)>>,
                 {"id"}, << >>, {})]]

Databases ==
    {DbUsers, DbShop, DbCode, DbEnroll, DbCycle, DbProfile, DbPassport, DbBare, DbNotes,
     DbGrades, DbPermit}

\* The databases whose configuration may name a table they do not have.
GhostDatabases == {"users", "shop", "cycle", "bare"}

\* A table the configuration may name although the database has none such.
GhostTable == "ghost"

\* Every column name of the databases above, in lexicographic order
\* (Python's sorted() on str).
ColumnNamesSorted ==
    <<"a_id", "account_id", "b_id", "body", "code", "course_id", "customer_code",
      "customer_id", "email", "id", "meta", "name", "order_number", "parent_id", "person_id",
      "referred_by",
      "sponsor_id", "student_id", "visa_id">>

\* --------------------------------------------------------- sequence helpers
Range(s) == {s[i] : i \in DOMAIN s}

\* All orderings of the finite set S, as sequences.
Perms(S) ==
    {p \in [1..Cardinality(S) -> S] : \A i, j \in 1..Cardinality(S) : p[i] = p[j] => i = j}

\* key in d, for a dict d modelled as a function (an empty one has no keys)
InDom(key, d) == \E k \in DOMAIN d : k = key

\* sorted(S) for a set of column names
SortedNames(S) == SelectSeq(ColumnNamesSorted, LAMBDA n : n \in S)


\* ------------------------------------------------------------------- state
VARIABLES
    dbname,               \* which database the inspector looks at
    schema,               \* config["schema"]: table name -> row count
    returns_id,           \* whether the store's driver reports a lastrowid
    pc,                   \* control point of seed()
    tables_to_seed,       \* seed.py:216
    ti,                   \* position of the for loop of seed.py:224 (1-based)
    inserted_pks,         \* seed.py:219
    used_unique_values,   \* seed.py:252
    used_pk_combinations, \* seed.py:255
    available_fk_pks,     \* seed.py:258
    row_i,                \* iterations of the loop of seed.py:265 already done
    attempt,              \* value of attempt in the loop of seed.py:271
    row_data,             \* seed.py:272
    rows,                 \* the store: table -> rows executed, each committed or not
    ops,                  \* the store: statements and commits, in the order received
    sref_i,               \* position of the loop of seed.py:374 (1-based)
    rows_to_update,       \* seed.py:376, the part not yet visited
    output,               \* the per-table summary lines of seed.py:389-393
    pool_exhausted,       \* history: tables where a row hit the break of seed.py:295
    attempts_exhausted,   \* history: tables where a row used up all its attempts
    synth,                \* a call of get_faker_value on its own: arguments and result
    bld                   \* the build command: the rest of katcha.yml, and what build did

vars ==
    <<dbname, schema, returns_id, pc, tables_to_seed, ti, inserted_pks,
      used_unique_values, used_pk_combinations, available_fk_pks, row_i, attempt,
      row_data, rows, ops, sref_i, rows_to_update, output, pool_exhausted,
      attempts_exhausted, synth, bld>>

\* -------------------------------------------------------------- inspector
db == CHOOSE d \in Databases : d.name = dbname

\* inspector.get_table_names(), as a set
db_tables == Range(db.tables)

get_table_columns(table_name) == db.def[table_name].columns

\* regular_fks of get_foreign_keys: the edges to another table
foreign_keys_of(table_name) ==
    SelectSeq(db.def[table_name].fks, LAMBDA fk : fk.ref_table # table_name)

\* self_referential_fks of get_foreign_keys: the edges to the table itself
self_ref_fks_of(table_name) ==
    SelectSeq(db.def[table_name].fks, LAMBDA fk : fk.ref_table = table_name)

get_primary_keys(table_name) == db.def[table_name].pk

get_unique_columns(table_name) == db.def[table_name].unique

\* col_name in fks, for one of the two dicts above
FkCols(fks) == {fks[i].col : i \in DOMAIN fks}
\* fks[col_name]
FkAt(fks, col_name) == fks[CHOOSE i \in DOMAIN fks : fks[i].col = col_name]

\* ----------------------------------------------------- dependency orderer
\* build_dependency_graph: table -> set of other tables it references
build_dependency_graph ==
    [t \in db_tables |->
        {fk.ref_table : fk \in {f \in Range(db.def[t].fks) : f.ref_table # t}}]

\* graphlib.CycleError, as a value of the type of a sorted list
CycleError == <<"CycleError">>

RECURSIVE StaticOrder(_, _)
\* TopologicalSorter.static_order(): the nodes whose predecessors are all done
\* are yielded together, in an order that depends on dict and set iteration
\* (every order of the group is allowed here); when nothing is ready and nodes
\* are left, the graph has a cycle.
StaticOrder(graph, done) ==
    LET doneSet == Range(done)
        ready == {n \in DOMAIN graph \ doneSet : graph[n] \subseteq doneSet}
    IN  IF doneSet = DOMAIN graph THEN {done}
        ELSE IF ready = {} THEN {CycleError}
        ELSE UNION {StaticOrder(graph, done \o p) : p \in Perms(ready)}

RECURSIVE LenientOrder(_, _)
\* A sorter that yields what it can and stops at a cycle without raising.
LenientOrder(graph, done) ==
    LET doneSet == Range(done)
        ready == {n \in DOMAIN graph \ doneSet : graph[n] \subseteq doneSet}
    IN  IF doneSet = DOMAIN graph THEN {done}
        ELSE IF ready = {} THEN {done}
        ELSE UNION {LenientOrder(graph, done \o p) : p \in Perms(ready)}

\* A sorter that takes the edges the wrong way round: dependents first.
topological_sort_reversed(graph) ==
    StaticOrder([n \in DOMAIN graph |-> {m \in DOMAIN graph : n \in graph[m]}], << >>)

\* A sorter without cycle detection.
topological_sort_lenient(graph) == LenientOrder(graph, << >>)

\* topological_sort: the lists static_order() can produce, or CycleError
topological_sort(graph) == StaticOrder(graph, << >>)

\* ------------------------------------------------------------ characters
\* The characters that column names and type names are made of; the
\* patterns of get_faker_value are written as their characters.
Chars ==
       ("BIGINT" :> <<"B", "I", "G", "I", "N", "T">>) @@
       ("BLOB" :> <<"B", "L", "O", "B">>) @@
       ("BOOLEAN" :> <<"B", "O", "O", "L", "E", "A", "N">>) @@
       ("CHAR(36)" :> <<"C", "H", "A", "R", "(", "3", "6", ")">>) @@
       ("DATE" :> <<"D", "A", "T", "E">>) @@
       ("DATETIME" :> <<"D", "A", "T", "E", "T", "I", "M", "E">>) @@
       ("DECIMAL" :> <<"D", "E", "C", "I", "M", "A", "L">>) @@
       ("Email" :> <<"E", "m", "a", "i", "l">>) @@
       ("FLOAT" :> <<"F", "L", "O", "A", "T">>) @@
       ("INTEGER" :> <<"I", "N", "T", "E", "G", "E", "R">>) @@
       ("INTERVAL" :> <<"I", "N", "T", "E", "R", "V", "A", "L">>) @@
       ("JSON" :> <<"J", "S", "O", "N">>) @@
       ("JSONB" :> <<"J", "S", "O", "N", "B">>) @@
       ("NULL" :> <<"N", "U", "L", "L">>) @@
       ("NUMERIC" :> <<"N", "U", "M", "E", "R", "I", "C">>) @@
       ("REAL" :> <<"R", "E", "A", "L">>) @@
       ("SMALLINT" :> <<"S", "M", "A", "L", "L", "I", "N", "T">>) @@
       ("TEXT" :> <<"T", "E", "X", "T">>) @@
       ("TIME" :> <<"T", "I", "M", "E">>) @@
       ("TIMESTAMP" :> <<"T", "I", "M", "E", "S", "T", "A", "M", "P">>) @@
       ("UUID" :> <<"U", "U", "I", "D">>) @@
       ("VARCHAR" :> <<"V", "A", "R", "C", "H", "A", "R">>) @@
       ("VARCHAR(36)" :> <<"V", "A", "R", "C", "H", "A", "R", "(", "3", "6", ")">>) @@
       ("VARCHAR(50)" :> <<"V", "A", "R", "C", "H", "A", "R", "(", "5", "0", ")">>) @@
       ("a_id" :> <<"a", "_", "i", "d">>) @@
       ("account_id" :> <<"a", "c", "c", "o", "u", "n", "t", "_", "i", "d">>) @@
       ("address" :> <<"a", "d", "d", "r", "e", "s", "s">>) @@
       ("algorithm" :> <<"a", "l", "g", "o", "r", "i", "t", "h", "m">>) @@
       ("api_key" :> <<"a", "p", "i", "_", "k", "e", "y">>) @@
       ("api_token" :> <<"a", "p", "i", "_", "t", "o", "k", "e", "n">>) @@
       ("b_id" :> <<"b", "_", "i", "d">>) @@
       ("body" :> <<"b", "o", "d", "y">>) @@
       ("city" :> <<"c", "i", "t", "y">>) @@
       ("code" :> <<"c", "o", "d", "e">>) @@
       ("colour" :> <<"c", "o", "l", "o", "u", "r">>) @@
       ("company" :> <<"c", "o", "m", "p", "a", "n", "y">>) @@
       ("country" :> <<"c", "o", "u", "n", "t", "r", "y">>) @@
       ("course_id" :> <<"c", "o", "u", "r", "s", "e", "_", "i", "d">>) @@
       ("created_at" :> <<"c", "r", "e", "a", "t", "e", "d", "_", "a", "t">>) @@
       ("customer_code" :> <<"c", "u", "s", "t", "o", "m", "e", "r", "_", "c", "o", "d", "e">>) @@
       ("customer_id" :> <<"c", "u", "s", "t", "o", "m", "e", "r", "_", "i", "d">>) @@
       ("deleted_on" :> <<"d", "e", "l", "e", "t", "e", "d", "_", "o", "n">>) @@
       ("discount_price" :> <<"d", "i", "s", "c", "o", "u", "n", "t", "_", "p", "r", "i", "c", "e">>) @@
       ("domain" :> <<"d", "o", "m", "a", "i", "n">>) @@
       ("email" :> <<"e", "m", "a", "i", "l">>) @@
       ("email_count" :> <<"e", "m", "a", "i", "l", "_", "c", "o", "u", "n", "t">>) @@
       ("estate" :> <<"e", "s", "t", "a", "t", "e">>) @@
       ("first_name" :> <<"f", "i", "r", "s", "t", "_", "n", "a", "m", "e">>) @@
       ("hostel" :> <<"h", "o", "s", "t", "e", "l">>) @@
       ("id" :> <<"i", "d">>) @@
       ("ip" :> <<"i", "p">>) @@
       ("ip_address" :> <<"i", "p", "_", "a", "d", "d", "r", "e", "s", "s">>) @@
       ("issuer" :> <<"i", "s", "s", "u", "e", "r">>) @@
       ("meta" :> <<"m", "e", "t", "a">>) @@
       ("name" :> <<"n", "a", "m", "e">>) @@
       ("order_number" :> <<"o", "r", "d", "e", "r", "_", "n", "u", "m", "b", "e", "r">>) @@
       ("parent_id" :> <<"p", "a", "r", "e", "n", "t", "_", "i", "d">>) @@
       ("password" :> <<"p", "a", "s", "s", "w", "o", "r", "d">>) @@
       ("payload" :> <<"p", "a", "y", "l", "o", "a", "d">>) @@
       ("person_id" :> <<"p", "e", "r", "s", "o", "n", "_", "i", "d">>) @@
       ("price" :> <<"p", "r", "i", "c", "e">>) @@
       ("quantity" :> <<"q", "u", "a", "n", "t", "i", "t", "y">>) @@
       ("rating" :> <<"r", "a", "t", "i", "n", "g">>) @@
       ("referred_by" :> <<"r", "e", "f", "e", "r", "r", "e", "d", "_", "b", "y">>) @@
       ("role_type" :> <<"r", "o", "l", "e", "_", "t", "y", "p", "e">>) @@
       ("serial" :> <<"s", "e", "r", "i", "a", "l">>) @@
       ("server_ip" :> <<"s", "e", "r", "v", "e", "r", "_", "i", "p">>) @@
       ("ship_date" :> <<"s", "h", "i", "p", "_", "d", "a", "t", "e">>) @@
       ("short_desc" :> <<"s", "h", "o", "r", "t", "_", "d", "e", "s", "c">>) @@
       ("slug" :> <<"s", "l", "u", "g">>) @@
       ("sponsor_id" :> <<"s", "p", "o", "n", "s", "o", "r", "_", "i", "d">>) @@
       ("status" :> <<"s", "t", "a", "t", "u", "s">>) @@
       ("student_id" :> <<"s", "t", "u", "d", "e", "n", "t", "_", "i", "d">>) @@
       ("surname" :> <<"s", "u", "r", "n", "a", "m", "e">>) @@
       ("title" :> <<"t", "i", "t", "l", "e">>) @@
       ("type" :> <<"t", "y", "p", "e">>) @@
       ("user_uuid" :> <<"u", "s", "e", "r", "_", "u", "u", "i", "d">>) @@
       ("username" :> <<"u", "s", "e", "r", "n", "a", "m", "e">>) @@
       ("uuid_id" :> <<"u", "u", "i", "d", "_", "i", "d">>) @@
       ("valid" :> <<"v", "a", "l", "i", "d">>) @@
       ("UserID" :> <<"U", "s", "e", "r", "I", "D">>) @@
       ("Created_At" :> <<"C", "r", "e", "a", "t", "e", "d", "_", "A", "t">>) @@
       ("visa_id" :> <<"v", "i", "s", "a", "_", "i", "d">>) @@
       ("version" :> <<"v", "e", "r", "s", "i", "o", "n">>) @@
       ("website" :> <<"w", "e", "b", "s", "i", "t", "e">>) @@
       ("zip" :> <<"z", "i", "p">>)

\* The letters, upper case and lower case.
UpperCase ==
    <<"A", "B", "C", "D", "E", "F", "G", "H", "I", "J", "K", "L", "M", "N", "O", "P",
      "Q", "R", "S", "T", "U", "V", "W", "X", "Y", "Z">>
LowerCase ==
    <<"a", "b", "c", "d", "e", "f", "g", "h", "i", "j", "k", "l", "m", "n", "o", "p",
      "q", "r", "s", "t", "u", "v", "w", "x", "y", "z">>

\* str.lower(), on one character
Lower(ch) ==
    IF \E k \in DOMAIN UpperCase : UpperCase[k] = ch
    THEN LowerCase[CHOOSE k \in DOMAIN UpperCase : UpperCase[k] = ch]
    ELSE ch

\* seed.py:32  name_lower = column_name.lower()
name_lower(column_name) ==
    [i \in DOMAIN Chars[column_name] |-> Lower(Chars[column_name][i])]

\* pattern in s
In(pattern, s) ==
    \E i \in 0..(Len(s) - Len(pattern)) : SubSeq(s, i + 1, i + Len(pattern)) = pattern

\* s.endswith(pattern)
EndsWith(s, pattern) ==
    Len(s) >= Len(pattern) /\ SubSeq(s, Len(s) - Len(pattern) + 1, Len(s)) = pattern

\* s == pattern
Eq(s, pattern) == s = pattern

\* The column names get_faker_value is called with: those of the databases and names that meet the patterns of its rules.
ColumnNames ==
    {"UserID", "Created_At", "Email", "a_id", "account_id", "address", "algorithm",
     "api_key", "api_token", "b_id", "body", "city", "code", "colour", "company",
     "country", "course_id",
     "created_at", "customer_code", "customer_id", "deleted_on", "discount_price",
     "domain", "email", "email_count", "estate", "first_name", "hostel", "id", "ip",
     "ip_address", "issuer", "meta", "name", "order_number", "parent_id", "password",
     "payload", "person_id", "price", "quantity", "rating", "referred_by", "role_type",
     "serial", "server_ip", "ship_date", "short_desc", "slug", "sponsor_id", "status",
     "student_id", "surname", "title", "type", "user_uuid", "username", "uuid_id",
     "valid", "version", "visa_id", "website",
     "zip"}

\* The column types it is called with: reflected types by their SQL name and
\* generic SQLAlchemy types by their class.
ColumnTypes ==
    {"INTEGER", "SMALLINT", "BIGINT", "TEXT", "JSON", "JSONB", "FLOAT", "NUMERIC",
     "DECIMAL", "REAL", "BOOLEAN", "DATE", "DATETIME", "TIMESTAMP", "TIME", "UUID",
     "VARCHAR(36)", "VARCHAR(50)", "CHAR(36)", "BLOB", "INTERVAL", "NULL", "Integer",
     "SmallInteger", "BigInteger", "Float", "Numeric", "Boolean", "Date", "DateTime",
     "Time", "Text", "String"}

\* ------------------------------------------------------ value synthesizer
\* A column type is named by its SQL name (a reflected type, whose class is
\* the dialect's) or by the name of its generic SQLAlchemy class.
GenericTypes ==
    {"Integer", "SmallInteger", "BigInteger", "Float", "Numeric", "Boolean", "Date",
     "DateTime", "Time", "Text", "String"}

\* seed.py:114  type_class = type(column_type), "" for a class the code does not name
type_class(column_type) == IF column_type \in GenericTypes THEN column_type ELSE ""

\* seed.py:115  type_str = str(column_type).upper()
type_str(column_type) ==
    Chars[CASE column_type = "Integer" -> "INTEGER"
            [] column_type = "SmallInteger" -> "SMALLINT"
            [] column_type = "BigInteger" -> "BIGINT"
            [] column_type = "Float" -> "FLOAT"
            [] column_type = "Numeric" -> "NUMERIC"
            [] column_type = "Boolean" -> "BOOLEAN"
            [] column_type = "Date" -> "DATE"
            [] column_type = "DateTime" -> "DATETIME"
            [] column_type = "Time" -> "TIME"
            [] column_type = "Text" -> "TEXT"
            [] column_type = "String" -> "VARCHAR"
            [] OTHER -> column_type]

\* seed.py:137-139  the declared length is 36
HasLength36(column_type) == column_type \in {"VARCHAR(36)", "CHAR(36)"}

\* seed.py:113-145  the type rules and the default; the result is the line
\* of the return statement that is reached
type_rule(column_type) ==
    LET c == type_class(column_type)
        ts == type_str(column_type)
    IN  IF In(<<"U", "U", "I", "D">>, ts) THEN 119
        ELSE IF c \in {"Integer", "SmallInteger", "BigInteger"}
                   \/ In(<<"I", "N", "T">>, ts) THEN 121
        ELSE IF c \in {"Float", "Numeric"} \/ In(<<"F", "L", "O", "A", "T">>, ts)
                   \/ In(<<"N", "U", "M", "E", "R", "I", "C">>, ts)
                   \/ In(<<"D", "E", "C", "I", "M", "A", "L">>, ts)
                          \/ In(<<"R", "E", "A", "L">>, ts) THEN 123
        ELSE IF c = "Boolean" \/ In(<<"B", "O", "O", "L">>, ts) THEN 125
        ELSE IF c = "Date" \/ Eq(ts, <<"D", "A", "T", "E">>) THEN 127
        ELSE IF c = "DateTime" \/ In(<<"D", "A", "T", "E", "T", "I", "M", "E">>, ts)
                   \/ In(<<"T", "I", "M", "E", "S", "T", "A", "M", "P">>, ts) THEN 129
        ELSE IF c = "Time" \/ Eq(ts, <<"T", "I", "M", "E">>) THEN 131
        ELSE IF In(<<"J", "S", "O", "N">>, ts) THEN 133
        ELSE IF c = "Text" \/ In(<<"T", "E", "X", "T">>, ts) THEN 135
        ELSE IF c = "String" \/ In(<<"V", "A", "R", "C", "H", "A", "R">>, ts)
                   \/ In(<<"C", "H", "A", "R">>, ts)
             THEN (IF HasLength36(column_type) THEN 140 ELSE 142)
        ELSE 145

\* seed.py:35-111  the name rules on the lower-cased name n: the line of the
\* return statement that is reached, or 0 when no name rule matches
name_rule(n) ==
    IF In(<<"e", "m", "a", "i", "l">>, n) THEN 36
    ELSE IF In(<<"p", "h", "o", "n", "e">>, n)
               \/ In(<<"m", "o", "b", "i", "l", "e">>, n)
               \/ In(<<"t", "e", "l">>, n) THEN 38
    ELSE IF (\E p \in {<<"f", "i", "r", "s", "t", "_", "n", "a", "m", "e">>,
                      <<"f", "i", "r", "s", "t", "n", "a", "m", "e">>,
                      <<"f", "n", "a", "m", "e">>} : Eq(n, p)) THEN 40
    ELSE IF (\E p \in {<<"l", "a", "s", "t", "_", "n", "a", "m", "e">>,
                      <<"l", "a", "s", "t", "n", "a", "m", "e">>,
                      <<"l", "n", "a", "m", "e">>,
                      <<"s", "u", "r", "n", "a", "m", "e">>} : Eq(n, p)) THEN 42
    ELSE IF (\E p \in {<<"n", "a", "m", "e">>,
                      <<"f", "u", "l", "l", "_", "n", "a", "m", "e">>,
                      <<"f", "u", "l", "l", "n", "a", "m", "e">>,
                      <<"u", "s", "e", "r", "n", "a", "m", "e">>} : Eq(n, p)) THEN 44
    ELSE IF In(<<"a", "d", "d", "r", "e", "s", "s">>, n) THEN 46
    ELSE IF In(<<"c", "i", "t", "y">>, n) THEN 48
    ELSE IF In(<<"s", "t", "a", "t", "e">>, n)
               \/ In(<<"p", "r", "o", "v", "i", "n", "c", "e">>, n) THEN 50
    ELSE IF In(<<"c", "o", "u", "n", "t", "r", "y">>, n) THEN 52
    ELSE IF In(<<"z", "i", "p">>, n) \/ In(<<"p", "o", "s", "t", "a", "l">>, n) THEN 54
    ELSE IF In(<<"u", "r", "l">>, n) \/ In(<<"w", "e", "b", "s", "i", "t", "e">>, n)
               \/ In(<<"l", "i", "n", "k">>, n) THEN 56
    ELSE IF In(<<"i", "p">>, n) /\ In(<<"a", "d", "d", "r", "e", "s", "s">>, n) THEN 58
    ELSE IF Eq(n, <<"i", "p">>) \/ EndsWith(n, <<"_", "i", "p">>) THEN 60
    ELSE IF In(<<"d", "e", "s", "c", "r", "i", "p", "t", "i", "o", "n">>, n)
               \/ In(<<"d", "e", "s", "c">>, n) THEN 62
    ELSE IF In(<<"t", "i", "t", "l", "e">>, n) THEN 64
    ELSE IF In(<<"c", "o", "m", "p", "a", "n", "y">>, n)
               \/ In(<<"o", "r", "g", "a", "n", "i", "z", "a", "t", "i", "o", "n">>, n) THEN 66
    ELSE IF In(<<"u", "u", "i", "d">>, n) \/ In(<<"g", "u", "i", "d">>, n) THEN 68
    ELSE IF In(<<"p", "a", "s", "s", "w", "o", "r", "d">>, n)
               \/ In(<<"h", "a", "s", "h">>, n) THEN 70
    ELSE IF In(<<"t", "o", "k", "e", "n">>, n)
               \/ In(<<"s", "e", "c", "r", "e", "t">>, n) THEN 72
    ELSE IF In(<<"s", "l", "u", "g">>, n) THEN 74
    ELSE IF In(<<"c", "o", "l", "o", "r">>, n)
               \/ In(<<"c", "o", "l", "o", "u", "r">>, n) THEN 76
    ELSE IF In(<<"d", "o", "m", "a", "i", "n">>, n) THEN 78
    ELSE IF In(<<"c", "r", "e", "a", "t", "e", "d", "_", "a", "t">>, n)
               \/ In(<<"u", "p", "d", "a", "t", "e", "d", "_", "a", "t">>, n)
               \/ In(<<"l", "a", "s", "t", "_", "l", "o", "g", "i", "n">>, n) THEN 80
    ELSE IF EndsWith(n, <<"_", "o", "n">>) \/ EndsWith(n, <<"_", "a", "t">>) THEN 82
    ELSE IF In(<<"s", "c", "o", "r", "e">>, n)
               \/ In(<<"r", "a", "t", "i", "n", "g">>, n) THEN 84
    ELSE IF In(<<"d", "i", "s", "c", "o", "u", "n", "t">>, n) THEN 86
    ELSE IF In(<<"q", "u", "a", "n", "t", "i", "t", "y">>, n) THEN 88
    ELSE IF In(<<"p", "r", "i", "c", "e">>, n) \/ In(<<"c", "o", "s", "t">>, n)
               \/ In(<<"a", "m", "o", "u", "n", "t">>, n) THEN 90
    ELSE IF In(<<"c", "o", "u", "n", "t">>, n) THEN 92
    ELSE IF In(<<"v", "e", "r", "s", "i", "o", "n">>, n) THEN 94
    ELSE IF In(<<"s", "e", "r", "i", "a", "l">>, n) THEN 96
    ELSE IF In(<<"s", "u", "b", "j", "e", "c", "t">>, n)
               \/ In(<<"i", "s", "s", "u", "e", "r">>, n) THEN 98
    ELSE IF In(<<"a", "l", "g", "o", "r", "i", "t", "h", "m">>, n) THEN 100
    ELSE IF In(<<"p", "u", "b", "l", "i", "c", "_", "k", "e", "y">>, n)
               \/ In(<<"k", "e", "y">>, n) THEN 102
    ELSE IF In(<<"s", "t", "a", "t", "u", "s">>, n) THEN 104
    ELSE IF In(<<"r", "o", "l", "e">>, n) THEN 106
    ELSE IF In(<<"t", "y", "p", "e">>, n) THEN 108
    ELSE IF EndsWith(n, <<"i", "d">>) /\ ~In(<<"u", "u", "i", "d">>, n) THEN 111
    ELSE 0

\* The name rule of every column name and the type rule of every column
\* type, worked out once.
NameRuleOf == [column_name \in ColumnNames |-> name_rule(name_lower(column_name))]
TypeRuleOf == [column_type \in ColumnTypes |-> type_rule(column_type)]

\* A synthesizer that looks at the type of the column only.
FakerRuleTypeOnly(column_name, column_type) == TypeRuleOf[column_type]

\* seed.py:32-145  get_faker_value after the null roll: the line of the
\* return statement that is reached, the name rules first
FakerRule(column_name, column_type) ==
    IF NameRuleOf[column_name] # 0
    THEN NameRuleOf[column_name]
    ELSE TypeRuleOf[column_type]

\* seed.py:35-111  the name rules in the order of the code, each with the
\* line of its return statement and whether its pattern matches the name
NameRules(n) ==
    <<[line |-> 36, hit |-> In(<<"e", "m", "a", "i", "l">>, n)],
      [line |-> 38, hit |-> In(<<"p", "h", "o", "n", "e">>, n)
                               \/ In(<<"m", "o", "b", "i", "l", "e">>, n)
                               \/ In(<<"t", "e", "l">>, n)],
      [line |-> 40, hit |-> (\E p \in {<<"f", "i", "r", "s", "t", "_", "n", "a", "m", "e">>,
                                      <<"f", "i", "r", "s", "t", "n", "a", "m", "e">>,
                                      <<"f", "n", "a", "m", "e">>} : Eq(n, p))],
      [line |-> 42, hit |-> (\E p \in {<<"l", "a", "s", "t", "_", "n", "a", "m", "e">>,
                                      <<"l", "a", "s", "t", "n", "a", "m", "e">>,
                                      <<"l", "n", "a", "m", "e">>,
                                      <<"s", "u", "r", "n", "a", "m", "e">>} : Eq(n, p))],
      [line |-> 44, hit |-> (\E p \in {<<"n", "a", "m", "e">>,
                                      <<"f", "u", "l", "l", "_", "n", "a", "m", "e">>,
                                      <<"f", "u", "l", "l", "n", "a", "m", "e">>,
                                      <<"u", "s", "e", "r", "n", "a", "m", "e">>} : Eq(n, p))],
      [line |-> 46, hit |-> In(<<"a", "d", "d", "r", "e", "s", "s">>, n)],
      [line |-> 48, hit |-> In(<<"c", "i", "t", "y">>, n)],
      [line |-> 50, hit |-> In(<<"s", "t", "a", "t", "e">>, n)
                               \/ In(<<"p", "r", "o", "v", "i", "n", "c", "e">>, n)],
      [line |-> 52, hit |-> In(<<"c", "o", "u", "n", "t", "r", "y">>, n)],
      [line |-> 54, hit |-> In(<<"z", "i", "p">>, n)
                               \/ In(<<"p", "o", "s", "t", "a", "l">>, n)],
      [line |-> 56, hit |-> In(<<"u", "r", "l">>, n)
                               \/ In(<<"w", "e", "b", "s", "i", "t", "e">>, n)
                               \/ In(<<"l", "i", "n", "k">>, n)],
      [line |-> 58, hit |-> In(<<"i", "p">>, n)
                               /\ In(<<"a", "d", "d", "r", "e", "s", "s">>, n)],
      [line |-> 60, hit |-> Eq(n, <<"i", "p">>) \/ EndsWith(n, <<"_", "i", "p">>)],
      [line |-> 62, hit |-> In(<<"d", "e", "s", "c", "r", "i", "p", "t", "i", "o", "n">>, n)
                               \/ In(<<"d", "e", "s", "c">>, n)],
      [line |-> 64, hit |-> In(<<"t", "i", "t", "l", "e">>, n)],
      [line |-> 66, hit |-> In(<<"c", "o", "m", "p", "a", "n", "y">>, n)
                               \/ In(<<"o", "r", "g", "a", "n", "i", "z", "a", "t", "i", "o", "n">>, n)],
      [line |-> 68, hit |-> In(<<"u", "u", "i", "d">>, n) \/ In(<<"g", "u", "i", "d">>, n)],
      [line |-> 70, hit |-> In(<<"p", "a", "s", "s", "w", "o", "r", "d">>, n)
                               \/ In(<<"h", "a", "s", "h">>, n)],
      [line |-> 72, hit |-> In(<<"t", "o", "k", "e", "n">>, n)
                               \/ In(<<"s", "e", "c", "r", "e", "t">>, n)],
      [line |-> 74, hit |-> In(<<"s", "l", "u", "g">>, n)],
      [line |-> 76, hit |-> In(<<"c", "o", "l", "o", "r">>, n)
                               \/ In(<<"c", "o", "l", "o", "u", "r">>, n)],
      [line |-> 78, hit |-> In(<<"d", "o", "m", "a", "i", "n">>, n)],
      [line |-> 80, hit |-> In(<<"c", "r", "e", "a", "t", "e", "d", "_", "a", "t">>, n)
                               \/ In(<<"u", "p", "d", "a", "t", "e", "d", "_", "a", "t">>, n)
                               \/ In(<<"l", "a", "s", "t", "_", "l", "o", "g", "i", "n">>, n)],
      [line |-> 82, hit |-> EndsWith(n, <<"_", "o", "n">>)
                               \/ EndsWith(n, <<"_", "a", "t">>)],
      [line |-> 84, hit |-> In(<<"s", "c", "o", "r", "e">>, n)
                               \/ In(<<"r", "a", "t", "i", "n", "g">>, n)],
      [line |-> 86, hit |-> In(<<"d", "i", "s", "c", "o", "u", "n", "t">>, n)],
      [line |-> 88, hit |-> In(<<"q", "u", "a", "n", "t", "i", "t", "y">>, n)],
      [line |-> 90, hit |-> In(<<"p", "r", "i", "c", "e">>, n)
                               \/ In(<<"c", "o", "s", "t">>, n)
                               \/ In(<<"a", "m", "o", "u", "n", "t">>, n)],
      [line |-> 92, hit |-> In(<<"c", "o", "u", "n", "t">>, n)],
      [line |-> 94, hit |-> In(<<"v", "e", "r", "s", "i", "o", "n">>, n)],
      [line |-> 96, hit |-> In(<<"s", "e", "r", "i", "a", "l">>, n)],
      [line |-> 98, hit |-> In(<<"s", "u", "b", "j", "e", "c", "t">>, n)
                               \/ In(<<"i", "s", "s", "u", "e", "r">>, n)],
      [line |-> 100, hit |-> In(<<"a", "l", "g", "o", "r", "i", "t", "h", "m">>, n)],
      [line |-> 102, hit |-> In(<<"p", "u", "b", "l", "i", "c", "_", "k", "e", "y">>, n)
                                \/ In(<<"k", "e", "y">>, n)],
      [line |-> 104, hit |-> In(<<"s", "t", "a", "t", "u", "s">>, n)],
      [line |-> 106, hit |-> In(<<"r", "o", "l", "e">>, n)],
      [line |-> 108, hit |-> In(<<"t", "y", "p", "e">>, n)],
      [line |-> 111, hit |-> EndsWith(n, <<"i", "d">>) /\ ~In(<<"u", "u", "i", "d">>, n)]>>

\* seed.py:118-142  the type rules in the order of the code, in the same form
TypeRules(column_type) ==
    LET c == type_class(column_type)
        ts == type_str(column_type)
        stringish == c = "String" \/ In(<<"V", "A", "R", "C", "H", "A", "R">>, ts)
               \/ In(<<"C", "H", "A", "R">>, ts)
    IN  <<[line |-> 119, hit |-> In(<<"U", "U", "I", "D">>, ts)],
          [line |-> 121, hit |-> c \in {"Integer", "SmallInteger", "BigInteger"}
                                    \/ In(<<"I", "N", "T">>, ts)],
          [line |-> 123, hit |-> c \in {"Float", "Numeric"}
                                    \/ In(<<"F", "L", "O", "A", "T">>, ts)
                                    \/ In(<<"N", "U", "M", "E", "R", "I", "C">>, ts)
                                           \/ In(<<"D", "E", "C", "I", "M", "A", "L">>, ts)
                                    \/ In(<<"R", "E", "A", "L">>, ts)],
          [line |-> 125, hit |-> c = "Boolean" \/ In(<<"B", "O", "O", "L">>, ts)],
          [line |-> 127, hit |-> c = "Date" \/ Eq(ts, <<"D", "A", "T", "E">>)],
          [line |-> 129, hit |-> c = "DateTime"
                                    \/ In(<<"D", "A", "T", "E", "T", "I", "M", "E">>, ts)
                                   
                                           \/ In(<<"T", "I", "M", "E", "S", "T", "A", "M", "P">>, ts)],
          [line |-> 131, hit |-> c = "Time" \/ Eq(ts, <<"T", "I", "M", "E">>)],
          [line |-> 133, hit |-> In(<<"J", "S", "O", "N">>, ts)],
          [line |-> 135, hit |-> c = "Text" \/ In(<<"T", "E", "X", "T">>, ts)],
          [line |-> 140, hit |-> stringish /\ HasLength36(column_type)],
          [line |-> 142, hit |-> stringish]>>

\* The values the generator of a return statement can give: NumVals of them,
\* integers for random_int, None for the JSON rule, and for any other
\* generator strings of two characters, none of them "_" or a digit.
FakerPool(rule) ==
    IF rule \in {88, 92, 94, 121}
    THEN {IntVal(k) : k \in 1..NumVals}
    ELSE IF rule = 133
    THEN {NULL}   \* seed.py:133  return None
    ELSE {StrVal(<<rule, 200 + k>>) : k \in 1..NumVals}

\* seed.py:27-145  the ways a call can return: the return statement reached
\* and the value it gives.  Line 30 is the null roll.
FakerReturns(column_name, column_type, nullable) ==
    LET rule == FakerRule(column_name, column_type)
    IN  (IF nullable THEN {[line |-> 30, value |-> NULL]} ELSE {})
        \cup {[line |-> rule, value |-> value] : value \in FakerPool(rule)}

\* get_faker_value: the values a call can return
get_faker_value(column_name, column_type, nullable) ==
    {r.value : r \in FakerReturns(column_name, column_type, nullable)}

\* ------------------------------------------------------------ table set-up
\* seed.py:242  isinstance(col["type"], (Integer, SmallInteger, BigInteger))
is_int_type(column_type) ==
    column_type \in {"INTEGER", "SMALLINT", "BIGINT", "Integer", "SmallInteger", "BigInteger"}

is_composite_pk(table_name) == Cardinality(get_primary_keys(table_name)) > 1

\* seed.py:244  the column left to the store: a single integer primary key
IsAutoPk(table_name, col) ==
    /\ col.name \in get_primary_keys(table_name)
    /\ is_int_type(col.type)
    /\ ~is_composite_pk(table_name)

insertable_columns(table_name) ==
    SelectSeq(get_table_columns(table_name), LAMBDA col : ~IsAutoPk(table_name, col))

\* auto_pk_col, or "" for None
auto_pk_col(table_name) ==
    LET autos == SelectSeq(get_table_columns(table_name),
                           LAMBDA col : IsAutoPk(table_name, col))
    IN  IF autos = << >> THEN "" ELSE autos[Len(autos)].name

\* A budget of one attempt for every table.
max_attempts_one(table_name) == 1

\* seed.py:269
max_attempts(table_name) == IF is_composite_pk(table_name) THEN MaxAttempts ELSE 1

\* ------------------------------------------------------------- the store
EmptyRow == [c \in {} |-> NULL]
NoKeys == [t \in {} |-> << >>]

Op(op, table, col, pk, val) ==
    [op |-> op, table |-> table, col |-> col, pk |-> pk, val |-> val]

\* A commit that makes nothing durable.
CommittedNothing(rs) == rs

\* conn.commit(): what was executed becomes durable
Committed(rs) ==
    [t \in DOMAIN rs |->
        [i \in DOMAIN rs[t] |-> [rs[t][i] EXCEPT !.committed = TRUE, !.durable = rs[t][i].data]]]

\* A connection that keeps what it was sent.
RolledBackNothing(rs) == rs

\* Leaving "with engine.connect() as conn" on an exception closes the
\* connection, and what was not committed is rolled back.
RolledBack(rs) ==
    [t \in DOMAIN rs |->
        LET kept == SelectSeq(rs[t], LAMBDA r : r.committed)
        IN  [i \in DOMAIN kept |-> [kept[i] EXCEPT !.data = kept[i].durable]]]

\* The identifier the store gives the next row of a table.
NextRowId(table_name) == Len(rows[table_name]) + 1

\* --------------------------------------------------------------- the run
\* The row-count configurations of a database: each table of the database is
\* absent or has a count, and a table the database does not have may be named.
Configs(d) ==
    LET names == Range(d.tables) \cup (IF d.name \in GhostDatabases THEN {GhostTable} ELSE {})
    IN  {cfg \in UNION {[S -> -1..MaxRows] : S \in SUBSET names} :
            InDom(GhostTable, cfg) => cfg[GhostTable] = MaxRows}

\* No call of get_faker_value on its own is under way.
NoCall ==
    [column_name |-> "", column_type |-> "", nullable |-> FALSE, stage |-> "none",
     line |-> 0, value |-> NULL]

\* The build command is not run.
NoBuild ==
    [stage |-> "none", has_file |-> FALSE, has_database |-> FALSE, has_version |-> FALSE,
     version |-> 0, default_rows |-> 0, builds |-> 0, new_tables |-> {},
     removed_tables |-> {}, first |-> << >>]

Init ==
    /\ dbname \in {d.name : d \in Databases}
    /\ schema \in Configs(CHOOSE d \in Databases : d.name = dbname)
    /\ returns_id \in BOOLEAN
    /\ pc = "start"
    /\ tables_to_seed = << >>
    /\ ti = 1
    /\ inserted_pks = NoKeys
    /\ used_unique_values = [c \in {} |-> {}]
    /\ used_pk_combinations = {}
    /\ available_fk_pks = [c \in {} |-> << >>]
    /\ row_i = 0
    /\ attempt = 0
    /\ row_data = EmptyRow
    /\ rows = [t \in Range((CHOOSE d \in Databases : d.name = dbname).tables) |-> << >>]
    /\ ops = << >>
    /\ sref_i = 1
    /\ rows_to_update = << >>
    /\ output = << >>
    /\ pool_exhausted = {}
    /\ attempts_exhausted = {}
    /\ synth = NoCall
    /\ bld = NoBuild

inputs == <<dbname, schema, returns_id, synth, bld>>
tracker == <<used_unique_values, used_pk_combinations, available_fk_pks>>
store == <<rows, ops>>
second == <<sref_i, rows_to_update>>
history == <<pool_exhausted, attempts_exhausted>>
rowpos == <<row_i, attempt, row_data>>

table_name == tables_to_seed[ti]
row_count == schema[table_name]
self_ref_fks == self_ref_fks_of(table_name)
primary_keys == get_primary_keys(table_name)

\* seed.py:205-208  an empty schema mapping ends the run before any work
SeedNoSchema ==
    /\ pc = "start"
    /\ DOMAIN schema = {}
    /\ pc' = "config_error"
    /\ UNCHANGED <<inputs, tables_to_seed, ti, inserted_pks, tracker, rowpos, store,
                   second, output, history>>

\* seed.py:210-221  sort the tables, keep those configured and in the database
SeedSortTables ==
    /\ pc = "start"
    /\ DOMAIN schema # {}
    /\ \E sorted_tables \in topological_sort(build_dependency_graph) :
          /\ sorted_tables # CycleError
          /\ tables_to_seed' =
                SelectSeq(sorted_tables, LAMBDA t : InDom(t, schema) /\ t \in db_tables)
    /\ pc' = "table"
    /\ UNCHANGED <<inputs, ti, inserted_pks, tracker, rowpos, store, second, output, history>>

\* seed.py:212  topological_sort raises CycleError, which nothing catches
SeedCycleError ==
    /\ pc = "start"
    /\ DOMAIN schema # {}
    /\ CycleError \in topological_sort(build_dependency_graph)
    /\ pc' = "cyclic"
    /\ UNCHANGED <<inputs, tables_to_seed, ti, inserted_pks, tracker, rowpos, store,
                   second, output, history>>

\* seed.py:395  the loop over the tables is over
SeedComplete ==
    /\ pc = "table"
    /\ ti > Len(tables_to_seed)
    /\ pc' = "done"
    /\ UNCHANGED <<inputs, tables_to_seed, ti, inserted_pks, tracker, rowpos, store,
                   second, output, history>>

\* A test that lets a count of zero through.
IsSkippedNegativeOnly(count) == count < 0

\* seed.py:226  if row_count <= 0
IsSkipped(count) == count <= 0

\* A table that is skipped stays the current table.
SkipTableStuck ==
    /\ pc = "table"
    /\ ti <= Len(tables_to_seed)
    /\ IsSkipped(row_count)
    /\ UNCHANGED vars

\* seed.py:225-227  a count of zero or less: continue
SkipTable ==
    /\ pc = "table"
    /\ ti <= Len(tables_to_seed)
    /\ IsSkipped(row_count)
    /\ ti' = ti + 1
    /\ UNCHANGED <<inputs, pc, tables_to_seed, inserted_pks, tracker, rowpos, store,
                   second, output, history>>

\* seed.py:257-263  the pools of the unique foreign-key columns
FkPools(table, keys) ==
    LET fks == foreign_keys_of(table)
        pooled == {c \in FkCols(fks) :
                      /\ c \in get_unique_columns(table)
                      /\ InDom(FkAt(fks, c).ref_table, keys)}
    IN  [c \in pooled |-> keys[FkAt(fks, c).ref_table]]

\* seed.py:229-263  set up the table's tracking state
BeginTable ==
    /\ pc = "table"
    /\ ti <= Len(tables_to_seed)
    /\ ~IsSkipped(row_count)
    /\ inserted_pks' = (table_name :> << >>) @@ inserted_pks
    /\ used_unique_values' = [c \in get_unique_columns(table_name) |-> {}]
    /\ used_pk_combinations' = {}
    /\ available_fk_pks' = FkPools(table_name, inserted_pks')
    /\ row_i' = 0
    /\ pc' = "row"
    /\ UNCHANGED <<inputs, tables_to_seed, ti, attempt, row_data, store, second, output, history>>

\* seed.py:265-272  next row, first attempt
StartRow ==
    /\ pc = "row"
    /\ row_i < row_count
    /\ attempt' = 0
    /\ row_data' = EmptyRow
    /\ pc' = "col"
    /\ UNCHANGED <<inputs, tables_to_seed, ti, inserted_pks, tracker, row_i, store,
                   second, output, history>>

\* seed.py:265  the loop over the rows is over
EndRows ==
    /\ pc = "row"
    /\ row_i >= row_count
    /\ pc' = "commit1"
    /\ UNCHANGED <<inputs, tables_to_seed, ti, inserted_pks, tracker, rowpos, store,
                   second, output, history>>

\* The state of one pass of the loop over the columns (seed.py:274-321): the
\* row so far, the tracking state, the next column and whether break was hit.
Gen(data, used, pools, ci, broke) ==
    [row_data |-> data, used_unique_values |-> used, available_fk_pks |-> pools,
     ci |-> ci, broke |-> broke]

\* row_data[col_name] = value, and on to the next column
Assign(g, col_name, value) ==
    [g EXCEPT !.row_data = (col_name :> value) @@ @, !.ci = @ + 1]

\* A unique foreign key that reads the pool and leaves the value in it.
UniqueFkColumnNoPop(g, col, nullable) ==
    IF InDom(col.name, g.available_fk_pks) /\ g.available_fk_pks[col.name] # << >>
    THEN {Assign(g, col.name, Head(g.available_fk_pks[col.name]))}
    ELSE IF nullable THEN {Assign(g, col.name, NULL)}
    ELSE {[g EXCEPT !.broke = TRUE]}

\* seed.py:289-295  a unique foreign key that is not part of the primary key
UniqueFkColumn(g, col, nullable) ==
    IF InDom(col.name, g.available_fk_pks) /\ g.available_fk_pks[col.name] # << >>
    THEN {[Assign(g, col.name, Head(g.available_fk_pks[col.name]))
             EXCEPT !.available_fk_pks[col.name] = Tail(@)]}
    ELSE IF nullable THEN {Assign(g, col.name, NULL)}
    ELSE {[g EXCEPT !.broke = TRUE]}

\* seed.py:297-303  any other foreign key
FkColumn(g, col, nullable, ref_table) ==
    IF InDom(ref_table, inserted_pks) /\ inserted_pks[ref_table] # << >>
    THEN {Assign(g, col.name, value) : value \in Range(inserted_pks[ref_table])}
    ELSE IF nullable THEN {Assign(g, col.name, NULL)}
    ELSE {Assign(g, col.name, IntVal(FallbackKey))}

\* seed.py:311  the test a synthesized value must pass
IsUnused(value, used) == value \notin used

\* seed.py:304-319  a unique or primary-key column: one of the 100 tries
\* returns a value not used yet, or all of them return used values and a
\* freshly synthesized base gets the number of used values as its suffix
UniqueColumn(g, col) ==
    LET used == IF InDom(col.name, g.used_unique_values)
                THEN g.used_unique_values[col.name] ELSE {}
        pool == get_faker_value(col.name, col.type, FALSE)
        fresh == {value \in pool : IsUnused(value, used)}
        suffixed == IF \E value \in pool : ~IsUnused(value, used)
                    THEN {Suffixed(base, Cardinality(used)) : base \in pool}
                    ELSE {}
    IN  {[Assign(g, col.name, value) EXCEPT
             !.used_unique_values = (col.name :> (used \cup {value})) @@ @] :
         value \in fresh \cup suffixed}

\* A self-referential column filled like any other foreign key, from the
\* keys of the rows inserted so far.
SelfRefColumnFromKeys(g, col) ==
    {Assign(g, col.name, value) : value \in {NULL} \cup Range(inserted_pks[table_name])}

\* seed.py:282-283  a self-referential foreign key: None, for the second pass
SelfRefColumn(g, col) == {Assign(g, col.name, NULL)}

\* seed.py:274-321  what one column does to the row and the tracking state
Column(table, g) ==
    LET col == insertable_columns(table)[g.ci]
        is_pk_col == col.name \in get_primary_keys(table)
        nullable == col.nullable /\ ~is_pk_col
        fks == foreign_keys_of(table)
    IN  IF col.name \in FkCols(self_ref_fks_of(table))
        THEN SelfRefColumn(g, col)
        ELSE IF col.name \in FkCols(fks)
        THEN IF col.name \in get_unique_columns(table) /\ ~is_pk_col
             THEN UniqueFkColumn(g, col, nullable)
             ELSE FkColumn(g, col, nullable, FkAt(fks, col.name).ref_table)
        ELSE IF col.name \in get_unique_columns(table) \cup get_primary_keys(table)
        THEN UniqueColumn(g, col)
        ELSE {Assign(g, col.name, value) :
                 value \in get_faker_value(col.name, col.type, nullable)}

RECURSIVE Columns(_, _)
\* the loop over the columns, from column g.ci on
Columns(table, g) ==
    IF g.broke THEN {g}
    ELSE IF g.ci > Len(insertable_columns(table)) THEN {g}
    ELSE UNION {Columns(table, h) : h \in Column(table, g)}

\* seed.py:272-321  the ways one attempt can fill the row
Attempts ==
    Columns(table_name, Gen(EmptyRow, used_unique_values, available_fk_pks, 1, FALSE))

\* seed.py:325  tuple(row_data.get(pk) for pk in sorted(primary_keys))
pk_combo(data) ==
    LET names == SortedNames(primary_keys)
    IN  [i \in DOMAIN names |-> IF InDom(names[i], data) THEN data[names[i]] ELSE NULL]

\* A check that lets every combination through.
IsNewComboAlways(combo, used) == TRUE

\* seed.py:326
IsNewCombo(combo, used) == combo \notin used

\* history: the table is noted when the attempt hit the break of seed.py:295
Broke(g) == IF g.broke THEN pool_exhausted \cup {table_name} ELSE pool_exhausted

\* seed.py:324  if is_composite_pk and row_data
NeedsCombo(data) == is_composite_pk(table_name) /\ DOMAIN data # {}

\* seed.py:272-321, 331-332  an attempt of a table without composite key (or
\* one that left the row empty): the attempt loop ends
AttemptPlain ==
    /\ pc = "col"
    /\ \E g \in Attempts :
          /\ ~NeedsCombo(g.row_data)
          /\ row_data' = g.row_data
          /\ used_unique_values' = g.used_unique_values
          /\ available_fk_pks' = g.available_fk_pks
          /\ pool_exhausted' = Broke(g)
    /\ attempt' = 0
    /\ pc' = "insert"
    /\ UNCHANGED <<inputs, tables_to_seed, ti, inserted_pks, used_pk_combinations, row_i,
                   store, second, output, attempts_exhausted>>

\* seed.py:272-328  an attempt whose key combination is new: it is recorded
\* and the attempt loop ends (attempt is not read after the break)
AttemptAccepted ==
    /\ pc = "col"
    /\ \E g \in Attempts :
          /\ NeedsCombo(g.row_data)
          /\ IsNewCombo(pk_combo(g.row_data), used_pk_combinations)
          /\ used_pk_combinations' = used_pk_combinations \cup {pk_combo(g.row_data)}
          /\ row_data' = g.row_data
          /\ used_unique_values' = g.used_unique_values
          /\ available_fk_pks' = g.available_fk_pks
          /\ pool_exhausted' = Broke(g)
    /\ attempt' = 0
    /\ pc' = "insert"
    /\ UNCHANGED <<inputs, tables_to_seed, ti, inserted_pks, row_i, store, second, output,
                   attempts_exhausted>>

\* seed.py:272-330  an attempt whose key combination is used: the row is
\* reset, and generated again if attempts are left
AttemptRejected ==
    /\ pc = "col"
    /\ \E g \in Attempts :
          /\ NeedsCombo(g.row_data)
          /\ ~IsNewCombo(pk_combo(g.row_data), used_pk_combinations)
          /\ used_unique_values' = g.used_unique_values
          /\ available_fk_pks' = g.available_fk_pks
          /\ pool_exhausted' = Broke(g)
    /\ row_data' = EmptyRow
    /\ IF attempt + 1 < max_attempts(table_name)
       THEN attempt' = attempt + 1 /\ pc' = "col"
                /\ attempts_exhausted' = attempts_exhausted
       ELSE attempt' = 0 /\ pc' = "insert"
                /\ attempts_exhausted' = attempts_exhausted \cup {table_name}
    /\ UNCHANGED <<inputs, tables_to_seed, ti, inserted_pks, used_pk_combinations, row_i,
                   store, second, output>>

\* A test that only drops the empty row.
IsIncompleteEmptyOnly(data, table) == DOMAIN data = {}

\* seed.py:335
IsIncomplete(data, table) ==
    IF DOMAIN data = {} THEN TRUE
    ELSE Cardinality(DOMAIN data) < Len(insertable_columns(table))

\* The loop variables of a row are dead once the row is done (row_data is
\* set anew at seed.py:266): they go back to their initial values.
RowDone ==
    /\ row_i' = row_i + 1
    /\ attempt' = 0
    /\ row_data' = EmptyRow
    /\ pc' = "row"

\* seed.py:335-336  continue: the row is dropped
DropRow ==
    /\ pc = "insert"
    /\ IsIncomplete(row_data, table_name)
    /\ RowDone
    /\ UNCHANGED <<inputs, tables_to_seed, ti, inserted_pks, tracker, store, second, output, history>>

\* What the store keeps of an insert: the payload, and the identifier it
\* assigns to the integer primary key that the payload leaves out.
StoredRow(table, data) ==
    IF auto_pk_col(table) = "" THEN data
    ELSE (auto_pk_col(table) :> IntVal(NextRowId(table))) @@ data

\* result.lastrowid: the identifier of the new row, or None with a driver
\* that reports none
lastrowid == IF returns_id THEN IntVal(NextRowId(table_name)) ELSE NULL

\* seed.py:348-358  what is appended to inserted_pks[table_name]
TrackedKey(table, data, rowid) ==
    IF Cardinality(get_primary_keys(table)) = 1
    THEN LET pk_col == CHOOSE c \in get_primary_keys(table) : TRUE
         IN  IF InDom(pk_col, data) THEN <<data[pk_col]>>
             ELSE IF Truthy(rowid) THEN <<rowid>>
             ELSE << >>
    ELSE <<TRUEVAL>>

\* seed.py:338-358  the insert is executed and its key recorded
ExecuteInsert ==
    /\ pc = "insert"
    /\ ~IsIncomplete(row_data, table_name)
    /\ rows' = [rows EXCEPT ![table_name] =
                   Append(@, [data |-> StoredRow(table_name, row_data),
                              committed |-> FALSE, durable |-> EmptyRow])]
    /\ ops' = Append(ops, Op("insert", table_name, "", NULL, NULL))
    /\ inserted_pks' = [inserted_pks EXCEPT ![table_name] =
                           @ \o TrackedKey(table_name, row_data, lastrowid)]
    /\ RowDone
    /\ UNCHANGED <<inputs, tables_to_seed, ti, tracker, second, output, history>>

\* seed.py:344  conn.execute raises: the exception leaves seed()
ExecuteInsertFails ==
    /\ pc = "insert"
    /\ ~IsIncomplete(row_data, table_name)
    /\ rows' = RolledBack(rows)
    /\ pc' = "failed"
    /\ UNCHANGED <<inputs, tables_to_seed, ti, inserted_pks, tracker, rowpos, ops,
                   second, output, history>>

\* seed.py:366-371  pk_col_name, or "" for None
pk_col_name ==
    IF auto_pk_col(table_name) # "" THEN auto_pk_col(table_name)
    ELSE IF Cardinality(primary_keys) = 1 THEN CHOOSE c \in primary_keys : TRUE
    ELSE ""

\* The way into the second pass without the first commit.
CommitRowsSkipped ==
    /\ pc = "commit1"
    /\ sref_i' = 1
    /\ rows_to_update' = << >>
    /\ pc' = IF self_ref_fks # << >> /\ inserted_pks[table_name] # << >> /\ pk_col_name # ""
             THEN "sample"
             ELSE "summary"
    /\ UNCHANGED <<inputs, tables_to_seed, ti, inserted_pks, tracker, rowpos, store, output,
                   history>>

\* seed.py:360-373  first commit, then the way into the second pass
CommitRows ==
    /\ pc = "commit1"
    /\ rows' = Committed(rows)
    /\ ops' = Append(ops, Op("commit", table_name, "", NULL, NULL))
    /\ sref_i' = 1
    /\ rows_to_update' = << >>
    /\ pc' = IF self_ref_fks # << >> /\ inserted_pks[table_name] # << >> /\ pk_col_name # ""
             THEN "sample"
             ELSE "summary"
    /\ UNCHANGED <<inputs, tables_to_seed, ti, inserted_pks, tracker, rowpos, output, history>>

\* random.sample(pks, k): k entries of pks at distinct positions, in any order
Samples(pks, k) ==
    {[i \in 1..k |-> pks[p[i]]] :
        p \in {q \in [1..k -> DOMAIN pks] : \A i, j \in 1..k : q[i] = q[j] => i = j}}

\* seed.py:376  k=min(len(pks) // 2, len(pks))
SampleSize(pks) == IF Len(pks) \div 2 < Len(pks) THEN Len(pks) \div 2 ELSE Len(pks)

\* seed.py:374-376  the rows to update for one self-referential column
SampleRows ==
    /\ pc = "sample"
    /\ sref_i <= Len(self_ref_fks)
    /\ rows_to_update' \in Samples(inserted_pks[table_name], SampleSize(inserted_pks[table_name]))
    /\ pc' = "update"
    /\ UNCHANGED <<inputs, tables_to_seed, ti, inserted_pks, tracker, rowpos, store,
                   sref_i, output, history>>

\* The candidates without the filter: the row itself may be picked.
other_pks_unfiltered(pks, pk_value) == pks

\* seed.py:379  other_pks = [p for p in pks if p != pk_value]
other_pks(pks, pk_value) == SelectSeq(pks, LAMBDA p : p # pk_value)

\* The store's UPDATE ... SET col = ref_val WHERE pk_col = pk_val
Updated(rs, pk_col, pk_val, ref_col, ref_val) ==
    [i \in DOMAIN rs |->
        IF rs[i].data[pk_col] = pk_val
        THEN [rs[i] EXCEPT !.data = (ref_col :> ref_val) @@ rs[i].data]
        ELSE rs[i]]

\* seed.py:377-380  a sampled row with no other row to point to is passed over
UpdateNoTarget ==
    /\ pc = "update"
    /\ rows_to_update # << >>
    /\ other_pks(inserted_pks[table_name], Head(rows_to_update)) = << >>
    /\ rows_to_update' = Tail(rows_to_update)
    /\ UNCHANGED <<inputs, pc, tables_to_seed, ti, inserted_pks, tracker, rowpos, store,
                   sref_i, output, history>>

\* seed.py:377-386  one update of the second pass
ExecuteUpdate ==
    /\ pc = "update"
    /\ rows_to_update # << >>
    /\ LET pk_value == Head(rows_to_update)
           others == other_pks(inserted_pks[table_name], pk_value)
           self_ref_col == self_ref_fks[sref_i].col
       IN  /\ others # << >>
           /\ \E ref_value \in Range(others) :
                 /\ rows' = [rows EXCEPT ![table_name] =
                                Updated(@, pk_col_name, pk_value, self_ref_col, ref_value)]
                 /\ ops' = Append(ops, Op("update", table_name, self_ref_col, pk_value, ref_value))
    /\ rows_to_update' = Tail(rows_to_update)
    /\ UNCHANGED <<inputs, pc, tables_to_seed, ti, inserted_pks, tracker, rowpos,
                   sref_i, output, history>>

\* seed.py:386  conn.execute raises: the exception leaves seed()
ExecuteUpdateFails ==
    /\ pc = "update"
    /\ rows_to_update # << >>
    /\ other_pks(inserted_pks[table_name], Head(rows_to_update)) # << >>
    /\ rows' = RolledBack(rows)
    /\ pc' = "failed"
    /\ UNCHANGED <<inputs, tables_to_seed, ti, inserted_pks, tracker, rowpos, ops,
                   second, output, history>>

\* seed.py:374-377  the sampled rows of one column are done: next column, or commit
NextSelfRefColumn ==
    /\ pc = "update"
    /\ rows_to_update = << >>
    /\ sref_i' = sref_i + 1
    /\ pc' = IF sref_i + 1 <= Len(self_ref_fks) THEN "sample" ELSE "commit2"
    /\ UNCHANGED <<inputs, tables_to_seed, ti, inserted_pks, tracker, rowpos, store,
                   rows_to_update, output, history>>

\* seed.py:387  second commit
CommitUpdates ==
    /\ pc = "commit2"
    /\ rows' = Committed(rows)
    /\ ops' = Append(ops, Op("commit", table_name, "", NULL, NULL))
    /\ pc' = "summary"
    /\ UNCHANGED <<inputs, tables_to_seed, ti, inserted_pks, tracker, rowpos, second, output, history>>

\* seed.py:389-393  the summary line of the table, and on to the next table
Summary ==
    /\ pc = "summary"
    /\ output' = Append(output,
                    [table |-> table_name,
                     actual_rows |-> Len(inserted_pks[table_name]),
                     row_count |-> row_count,
                     limited |-> Len(inserted_pks[table_name]) < row_count])
    /\ ti' = ti + 1
    /\ pc' = "table"
    /\ UNCHANGED <<inputs, tables_to_seed, inserted_pks, tracker, rowpos, store, second,
                   history>>

Next ==
    \/ SeedNoSchema \/ SeedSortTables \/ SeedCycleError \/ SeedComplete
    \/ SkipTable \/ BeginTable \/ StartRow \/ EndRows
    \/ AttemptPlain \/ AttemptAccepted \/ AttemptRejected
    \/ DropRow \/ ExecuteInsert \/ ExecuteInsertFails
    \/ CommitRows \/ SampleRows \/ UpdateNoTarget \/ ExecuteUpdate \/ ExecuteUpdateFails
    \/ NextSelfRefColumn \/ CommitUpdates \/ Summary

Spec == Init /\ [][Next]_vars

\* seed() is sequential code that keeps running: whenever a step of it can
\* be taken, one is taken.
FairSpec == Init /\ [][Next]_vars /\ WF_vars(Next)

\* ------------------------------------------- the value synthesizer on its own
\* A call get_faker_value(column_name, column_type, nullable) is about to run;
\* seed() itself has not started and does not run.
SynthInit ==
    /\ dbname = "notes"
    /\ schema = [t \in {} |-> 0]
    /\ returns_id = TRUE
    /\ pc = "synth"
    /\ tables_to_seed = << >>
    /\ ti = 1
    /\ inserted_pks = NoKeys
    /\ used_unique_values = [c \in {} |-> {}]
    /\ used_pk_combinations = {}
    /\ available_fk_pks = [c \in {} |-> << >>]
    /\ row_i = 0
    /\ attempt = 0
    /\ row_data = EmptyRow
    /\ rows = [t \in {"notes"} |-> << >>]
    /\ ops = << >>
    /\ sref_i = 1
    /\ rows_to_update = << >>
    /\ output = << >>
    /\ pool_exhausted = {}
    /\ attempts_exhausted = {}
    /\ bld = NoBuild
    /\ \E column_name \in ColumnNames, column_type \in ColumnTypes, nullable \in BOOLEAN :
          synth = [column_name |-> column_name, column_type |-> column_type,
                   nullable |-> nullable, stage |-> "called", line |-> 0, value |-> NULL]

\* seed.py:27-145  the call returns
GetFakerValue ==
    /\ pc = "synth"
    /\ synth.stage = "called"
    /\ \E r \in FakerReturns(synth.column_name, synth.column_type, synth.nullable) :
          synth' = [synth EXCEPT !.stage = "returned", !.line = r.line, !.value = r.value]
    /\ UNCHANGED <<dbname, schema, returns_id, bld, pc, tables_to_seed, ti, inserted_pks,
                   tracker, rowpos, store, second, output, history>>

SynthNext == GetFakerValue

SynthSpec == SynthInit /\ [][SynthNext]_vars

\* ------------------------------------------------------- the build command
\* build.py, with write_config of schema.py.  Between two runs of build the
\* configuration lives in katcha.yml: version, database, schema.  The
\* mapping of the schema section is the variable schema; bld holds the rest.
\* A dict is modelled as a function, so the order of its keys is left out.

\* f"{rows}" for an int, as character codes ("-" = 63)
IntText(n) == IF n < 0 THEN <<63>> \o Digits(0 - n) ELSE Digits(n)

RECURSIVE Number(_)
\* the number a sequence of digits stands for
Number(digits) ==
    IF digits = << >> THEN 0
    ELSE 10 * Number(SubSeq(digits, 1, Len(digits) - 1)) + digits[Len(digits)]

\* yaml.safe_load of an integer scalar
yaml_int(text) == IF Head(text) = 63 THEN 0 - Number(Tail(text)) ELSE Number(text)

\* schema.py:75-93 and build.py:29-30  what the next run of build loads of a
\* number that write_config wrote
Reloaded(n) == yaml_int(IntText(n))

\* build.py:44-50  the new schema: the tables of the database with their
\* configured count, or default_rows
\* build.py:53-57  and the tables of the configuration the database lacks
build_schema(existing_schema, sorted_tables, default_rows) ==
    [table \in Range(sorted_tables) \cup DOMAIN existing_schema |->
        IF InDom(table, existing_schema) THEN existing_schema[table] ELSE default_rows]

\* build.py:43-50  new_tables, as a set
new_tables(existing_schema, sorted_tables) ==
    {table \in Range(sorted_tables) : ~InDom(table, existing_schema)}

\* build.py:53-57  removed_tables, as a set
removed_tables(existing_schema, sorted_tables) ==
    DOMAIN existing_schema \ Range(sorted_tables)

\* build.py:65  schema_changed = new_tables or removed_tables
schema_changed(existing_schema, sorted_tables) ==
    IF new_tables(existing_schema, sorted_tables) # {} THEN TRUE
    ELSE removed_tables(existing_schema, sorted_tables) # {}

\* build.py:67  config.get("version", 1)
get_version == IF bld.has_version THEN bld.version ELSE 1

\* A katcha.yml, or none, and the options of the command.
BuildInit ==
    /\ dbname \in {d.name : d \in Databases}
    /\ schema \in Configs(CHOOSE d \in Databases : d.name = dbname)
    /\ returns_id = TRUE
    /\ pc = "build"
    /\ tables_to_seed = << >>
    /\ ti = 1
    /\ inserted_pks = NoKeys
    /\ used_unique_values = [c \in {} |-> {}]
    /\ used_pk_combinations = {}
    /\ available_fk_pks = [c \in {} |-> << >>]
    /\ row_i = 0
    /\ attempt = 0
    /\ row_data = EmptyRow
    /\ rows = [t \in Range((CHOOSE d \in Databases : d.name = dbname).tables) |-> << >>]
    /\ ops = << >>
    /\ sref_i = 1
    /\ rows_to_update = << >>
    /\ output = << >>
    /\ pool_exhausted = {}
    /\ attempts_exhausted = {}
    /\ synth = NoCall
    /\ \E has_file, has_database, has_version \in BOOLEAN :
       \E version \in 1..MaxVersion, default_rows \in {1, MaxRows + 1} :
          /\ has_file \/ (~has_database /\ ~has_version /\ DOMAIN schema = {})
          /\ has_version \/ version = 1
          /\ bld = [stage |-> "ready", has_file |-> has_file,
                    has_database |-> has_database, has_version |-> has_version,
                    version |-> version, default_rows |-> default_rows, builds |-> 0,
                    new_tables |-> {}, removed_tables |-> {}, first |-> << >>]

seedvars ==
    <<returns_id, synth, pc, tables_to_seed, ti, inserted_pks, tracker, rowpos, store,
      second, output, history>>

CanBuild == pc = "build" /\ bld.stage \in {"ready", "built"} /\ bld.builds < MaxBuilds

\* build.py:24-27  no config file: Exit(1)
BuildNoFile ==
    /\ CanBuild
    /\ ~bld.has_file
    /\ bld' = [bld EXCEPT !.stage = "exit"]
    /\ UNCHANGED <<dbname, schema, seedvars>>

\* build.py:32-35  no database section: Exit(1)
BuildNoDatabase ==
    /\ CanBuild
    /\ bld.has_file /\ ~bld.has_database
    /\ bld' = [bld EXCEPT !.stage = "exit"]
    /\ UNCHANGED <<dbname, schema, seedvars>>

\* build.py:40  get_sorted_tables raises CycleError, which nothing catches
BuildCycleError ==
    /\ CanBuild
    /\ bld.has_file /\ bld.has_database
    /\ CycleError \in topological_sort(build_dependency_graph)
    /\ bld' = [bld EXCEPT !.stage = "raised"]
    /\ UNCHANGED <<dbname, schema, seedvars>>

\* build.py:65-70, schema.py:80  nothing changed and the file has no version:
\* config['version'] raises KeyError before the file is opened for writing
BuildKeyError ==
    /\ CanBuild
    /\ bld.has_file /\ bld.has_database
    /\ \E sorted_tables \in topological_sort(build_dependency_graph) \ {CycleError} :
          ~schema_changed(schema, sorted_tables)
    /\ ~bld.has_version
    /\ bld' = [bld EXCEPT !.stage = "raised"]
    /\ UNCHANGED <<dbname, schema, seedvars>>

\* build.py:40-70, schema.py:75-93  a run of build that writes katcha.yml.
\* The state after it is what the next run loads from the file it wrote.
Build ==
    /\ CanBuild
    /\ bld.has_file /\ bld.has_database
    /\ \E sorted_tables \in topological_sort(build_dependency_graph) \ {CycleError} :
         LET changed == schema_changed(schema, sorted_tables)
             written == build_schema(schema, sorted_tables, bld.default_rows)
             version == IF changed THEN get_version + 1 ELSE bld.version
             loaded  == [table \in DOMAIN written |-> Reloaded(written[table])]
         IN  /\ IF changed THEN TRUE ELSE bld.has_version
             /\ schema' = loaded
             /\ bld' = [bld EXCEPT
                          !.stage = "built",
                          !.has_version = TRUE,
                          !.version = Reloaded(version),
                          !.builds = @ + 1,
                          !.new_tables = new_tables(schema, sorted_tables),
                          !.removed_tables = removed_tables(schema, sorted_tables),
                          !.first = IF bld.builds = 0
                                    THEN <<[schema |-> loaded, version |-> Reloaded(version)]>>
                                    ELSE @]
    /\ UNCHANGED <<dbname, seedvars>>

BuildNext ==
    \/ BuildNoFile
    \/ BuildNoDatabase
    \/ BuildCycleError
    \/ BuildKeyError
    \/ Build

BuildSpec == BuildInit /\ [][BuildNext]_vars

\* ------------------------------------------------------------------ claims
\* A table is seeded when the configuration names it with a positive count
\* and the database has it.
Seeded(t) == t \in db_tables /\ InDom(t, schema) /\ schema[t] > 0

\* The table the run is working on, when it is working on one.
InTable ==
    pc \in {"row", "col", "insert", "commit1", "sample", "update", "commit2", "summary"}

\* The positions of ops that hold an operation of one kind on one table.
OpsOf(kind, t) == {i \in DOMAIN ops : ops[i].op = kind /\ ops[i].table = t}

\* C1: while a table A is being processed (from its set-up on, hence before
\* its first row is generated), every seeded table B that a non-self foreign
\* key of A references has been through the loop already and its commit has
\* been issued; and no insert into B is issued after an insert into A.
C1_ReferencedTablesCommittedFirst ==
    /\ InTable =>
          \A fk \in Range(foreign_keys_of(table_name)) :
             Seeded(fk.ref_table) =>
                /\ \E k \in 1..(ti - 1) : tables_to_seed[k] = fk.ref_table
                /\ OpsOf("commit", fk.ref_table) # {}
    /\ \A a \in db_tables : \A fk \in Range(foreign_keys_of(a)) :
          \A i \in OpsOf("insert", a) : \A j \in OpsOf("insert", fk.ref_table) : j < i

\* C1 witness: the first row of orders is about to be generated, and the
\* customers it references are there, committed.
C1_Witness ==
    /\ dbname = "shop" /\ pc = "col" /\ row_i = 0
    /\ table_name = "orders"
    /\ rows["customers"] # << >>

\* C2: every non-null value in a non-self foreign-key column of a row in the
\* store is the value of the referenced column in some committed row of the
\* referenced table.
C2_ForeignKeysReferToCommittedRows ==
    \A a \in db_tables : \A fk \in Range(foreign_keys_of(a)) :
       \A i \in DOMAIN rows[a] :
          rows[a][i].data[fk.col] # NULL =>
             \E j \in DOMAIN rows[fk.ref_table] :
                /\ rows[fk.ref_table][j].committed
                /\ rows[fk.ref_table][j].data[fk.ref_col] = rows[a][i].data[fk.col]

\* The columns that must hold distinct values: those of a unique index, and
\* the primary key when it is a single column.
DistinctColumns(t) ==
    get_unique_columns(t) \cup
        (IF Cardinality(get_primary_keys(t)) = 1 THEN get_primary_keys(t) ELSE {})

\* C3: when the run is complete, no two rows of a table hold the same
\* non-null value in a unique or single primary-key column.
C3_UniqueColumnsHoldDistinctValues ==
    pc = "done" =>
       \A t \in db_tables : \A c \in DistinctColumns(t) :
          \A i, j \in DOMAIN rows[t] :
             (i # j /\ rows[t][i].data[c] # NULL) => rows[t][i].data[c] # rows[t][j].data[c]

\* C4: no two rows in the store of a table with a composite primary key
\* agree on all the primary-key columns.
C4_CompositeKeysAreDistinct ==
    \A t \in db_tables :
       is_composite_pk(t) =>
          \A i, j \in DOMAIN rows[t] :
             i # j => \E c \in get_primary_keys(t) : rows[t][i].data[c] # rows[t][j].data[c]

\* C4 witness: a composite-key table holds two rows.
C4_Witness == dbname = "enroll" /\ Len(rows["enrollments"]) >= 2

\* C5: every update of the second pass sets the self-referential column to
\* a key in the table's inserted_pks that is not the key of the updated row.
C5_SelfReferenceIsAnotherRow ==
    \A i \in DOMAIN ops :
       ops[i].op = "update" =>
          /\ ops[i].val # ops[i].pk
          /\ ops[i].val \in Range(inserted_pks[ops[i].table])

\* C5 witness: an update was issued for a table with two inserted rows.
C5_Witness ==
    \E i \in DOMAIN ops :
       /\ ops[i].op = "update"
       /\ Len(inserted_pks[ops[i].table]) >= 2
       /\ ops[i].pk \in Range(inserted_pks[ops[i].table])

LostRow(t) ==
    \/ t \in pool_exhausted
    \/ t \in attempts_exhausted
    \/ insertable_columns(t) = << >>

RECURSIVE Reach(_, _, _)
Reach(graph, frontier, seen) ==
    LET next == UNION {graph[n] : n \in frontier} \ seen
    IN  IF next = {} THEN seen ELSE Reach(graph, next, seen \cup next)
OnCycle(graph) == {n \in DOMAIN graph : n \in Reach(graph, {n}, {})}

\* C7: when the foreign-key graph has a cycle, a run that gets past the
\* configuration checks ends in the cycle error, and nothing is ever sent
\* to the store.
C7_CycleAbortsBeforeAnyStatement ==
    OnCycle(build_dependency_graph) # {} =>
       /\ ops = << >>
       /\ \A t \in db_tables : rows[t] = << >>
       /\ pc \in {"start", "cyclic", "config_error"}
       /\ pc = "config_error" => DOMAIN schema = {}

\* C7 witness: the run ended in the cycle error although a table off the
\* cycle was configured with rows.
C7_Witness == pc = "cyclic" /\ InDom("c", schema) /\ schema["c"] > 0

\* The tables with a single-column primary key and a self-referential column.
SelfRefTables ==
    {t \in db_tables : Cardinality(get_primary_keys(t)) = 1 /\ self_ref_fks_of(t) # << >>}

\* C8: when the run is complete, a table with a single-column primary key,
\* a self-referential column and n rows has, for that column, floor(n/2)
\* updates of distinct rows if n >= 2, each to the key of another row of the
\* table, and none if n = 1.
C8_HalfOfTheRowsAreUpdated ==
    pc = "done" =>
       \A t \in SelfRefTables : \A fk \in Range(self_ref_fks_of(t)) :
          LET n == Len(rows[t])
              upd == {i \in OpsOf("update", t) : ops[i].col = fk.col}
              keys == {rows[t][i].data[fk.ref_col] : i \in DOMAIN rows[t]}
          IN  /\ n >= 2 =>
                    /\ Cardinality(upd) = n \div 2
                    /\ \A i, j \in upd : i # j => ops[i].pk # ops[j].pk
                    /\ \A i \in upd : ops[i].val \in keys /\ ops[i].val # ops[i].pk
                    /\ \E i \in DOMAIN rows[t] :
                          /\ rows[t][i].data[fk.col] # NULL
                          /\ rows[t][i].data[fk.col] # rows[t][i].data[fk.ref_col]
              /\ n = 1 => upd = {}

\* The names a configuration can hold.
ConfigNames == db_tables \cup {GhostTable}

\* C9: a configured table with a count of zero or less, or one the database
\* does not have, never gets a statement, a commit, a row or an entry in
\* inserted_pks, and is not in the way of the run's completion.
C9_SkippedTablesAreUntouched ==
    \A t \in ConfigNames :
       (InDom(t, schema) /\ (schema[t] <= 0 \/ t \notin db_tables)) =>
          /\ \A i \in DOMAIN ops : ops[i].table # t
          /\ ~InDom(t, inserted_pks)
          /\ t \in db_tables => rows[t] = << >>
          /\ \A k \in DOMAIN output : output[k].table # t

\* C9 witness: the run is complete, it skipped a table with a count of zero
\* and a table the database does not have, and it seeded another table.
C9_Witness ==
    /\ pc = "done"
    /\ InDom(GhostTable, schema)
    /\ \E t \in db_tables : InDom(t, schema) /\ schema[t] <= 0
    /\ ops # << >>

\* C10: a step that ends in the failure, and any step after it, sends
\* nothing to the store and leaves there exactly the rows that were
\* committed, as they were committed; nothing is reported after it.
C10_FailureStopsTheRun ==
    [][pc' = "failed" =>
          /\ ops' = ops
          /\ output' = output
          /\ \A t \in db_tables :
                LET kept == SelectSeq(rows[t], LAMBDA r : r.committed)
                IN  /\ Len(rows'[t]) = Len(kept)
                    /\ \A i \in DOMAIN kept :
                          /\ rows'[t][i].committed
                          /\ rows'[t][i].data = kept[i].durable
                          /\ rows'[t][i].durable = kept[i].durable]_vars

\* C10 witness: an insert into orders failed after another went through;
\* the customers committed before are there, the orders are not.
C10_Witness ==
    /\ dbname = "shop" /\ pc = "failed"
    /\ OpsOf("insert", "orders") # {}
    /\ rows["orders"] = << >>
    /\ rows["customers"] # << >>
    /\ \A i \in DOMAIN rows["customers"] : rows["customers"][i].committed

\* The primary-key column of a table whose primary key is one column.
SinglePk(t) == CHOOSE c \in get_primary_keys(t) : TRUE

\* The i-th entry of inserted_pks[t] stands for a committed row: a key is
\* the primary-key value of a committed row, and there are no more presence
\* markers than committed rows.
KeyIsCommitted(t, i) ==
    IF Cardinality(get_primary_keys(t)) = 1
    THEN \E j \in DOMAIN rows[t] :
            rows[t][j].committed /\ rows[t][j].data[SinglePk(t)] = inserted_pks[t][i]
    ELSE i <= Len(SelectSeq(rows[t], LAMBDA r : r.committed))

\* The run is in the first pass of table t: its rows are being generated
\* and inserted, and its commit has not been issued yet.
InFirstPass(t) == pc \in {"row", "col", "insert", "commit1"} /\ table_name = t

\* C11 as stated: in every state of a run that has not failed, every entry
\* of inserted_pks stands for a committed row.
C11_InsertedKeysAreCommitted ==
    pc # "failed" =>
       \A t \in DOMAIN inserted_pks : \A i \in DOMAIN inserted_pks[t] : KeyIsCommitted(t, i)

\* C11 amended: the entries of inserted_pks[t] stand for committed rows in
\* every state outside the first pass of t, which are the states where the
\* list is read (by the tables that reference t and by the second pass).
C11_InsertedKeysAreCommittedWhenRead ==
    pc # "failed" =>
       \A t \in DOMAIN inserted_pks :
          ~InFirstPass(t) =>
             \A i \in DOMAIN inserted_pks[t] : KeyIsCommitted(t, i)

\* C11 witness: a row of orders is being generated, and the keys of the
\* customers it may draw from are there.
C11_Witness ==
    /\ dbname = "shop" /\ pc = "col" /\ table_name = "orders"
    /\ InDom("customers", inserted_pks) /\ inserted_pks["customers"] # << >>

\* C12: no foreign-key column of a row in the store, and no foreign-key
\* pool, holds a presence marker, which is what inserted_pks keeps for the
\* rows of a table with a composite primary key.
C12_CompositeKeyTablesAreNoTargets ==
    /\ \A a \in db_tables : \A fk \in Range(foreign_keys_of(a)) :
          \A i \in DOMAIN rows[a] : rows[a][i].data[fk.col] # TRUEVAL
    /\ \A c \in DOMAIN available_fk_pks : TRUEVAL \notin Range(available_fk_pks[c])

\* C13: a row of the store holds a non-null value in a self-referential
\* column only if an update of that row and column to that value was issued
\* after a commit of the table; so every row of the first pass, none of
\* whose updates can have been issued, holds null there.
C13_SelfReferenceOnlyBySecondPass ==
    \A t \in db_tables : \A fk \in Range(self_ref_fks_of(t)) :
       \A i \in DOMAIN rows[t] :
          rows[t][i].data[fk.col] # NULL =>
             \E u \in OpsOf("update", t) :
                /\ ops[u].col = fk.col
                /\ ops[u].val = rows[t][i].data[fk.col]
                /\ Cardinality(get_primary_keys(t)) = 1 =>
                      ops[u].pk = rows[t][i].data[SinglePk(t)]
                /\ \E c \in OpsOf("commit", t) : c < u

\* C13 witness: the run is complete; one row of users got its reference
\* by an update of the second pass, another still holds the null of its
\* insert.
C13_Witness ==
    /\ dbname = "users" /\ pc = "done"
    /\ \E i \in DOMAIN rows["users"] : rows["users"][i].data["referred_by"] # NULL
    /\ \E i \in DOMAIN rows["users"] : rows["users"][i].data["referred_by"] = NULL

\* The operations of a table come in one block, inserts first, then a
\* commit, then the updates, each after exactly one commit of the table and
\* before any other, and there are at most two commits.
OpsInOrder ==
    /\ \A i, j, k \in DOMAIN ops :
          (i < j /\ j < k /\ ops[i].table = ops[k].table) => ops[j].table = ops[i].table
    /\ \A t \in db_tables :
          /\ \A i \in OpsOf("insert", t) : \A c \in OpsOf("commit", t) : i < c
          /\ \A u \in OpsOf("update", t) :
                Cardinality({c \in OpsOf("commit", t) : c < u}) = 1
          /\ Cardinality(OpsOf("commit", t)) <= 2

\* The tables whose processing is complete: their summary line is there.
Completed == {output[k].table : k \in DOMAIN output}

\* The second pass runs for the table (seed.py:363, 373).
HasSecondPass(t) ==
    /\ self_ref_fks_of(t) # << >>
    /\ inserted_pks[t] # << >>
    /\ \/ auto_pk_col(t) # ""
       \/ Cardinality(get_primary_keys(t)) = 1

\* C14 as stated: the operations are in order, and every table whose
\* processing is complete got its two commits.
C14_TwoCommitsPerTable ==
    /\ OpsInOrder
    /\ \A t \in Completed : Cardinality(OpsOf("commit", t)) = 2

\* C14 amended: the operations are in order; a complete table for which the
\* second pass ran got two commits, the second after its updates, and any
\* other complete table got one commit and no update.
C14_OperationsInOrder ==
    /\ OpsInOrder
    /\ \A t \in Completed :
          IF HasSecondPass(t)
          THEN /\ Cardinality(OpsOf("commit", t)) = 2
               /\ \A u \in OpsOf("update", t) : \E c \in OpsOf("commit", t) : u < c
          ELSE /\ Cardinality(OpsOf("commit", t)) = 1
               /\ OpsOf("update", t) = {}

\* C14 witness: the run is complete; accounts were inserted, then profiles,
\* and a profile was updated in the second pass.
C14_Witness ==
    /\ dbname = "profile" /\ pc = "done"
    /\ OpsOf("insert", "accounts") # {}
    /\ OpsOf("update", "profiles") # {}

\* C15: while the run has not failed, inserted_pks of a table has one entry
\* for each insert executed for the table, and the count of a summary line
\* is the number of rows inserted.
C15_OneKeyPerInsert ==
    pc # "failed" =>
       /\ \A t \in DOMAIN inserted_pks :
             Len(inserted_pks[t]) = Cardinality(OpsOf("insert", t))
       /\ \A k \in DOMAIN output :
             output[k].actual_rows = Len(rows[output[k].table])

\* The columns of a table whose values come from the loop of seed.py:304-319:
\* unique or primary-key columns that are no foreign keys.
UniqueSynthCols(t) ==
    {col.name : col \in {k \in Range(insertable_columns(t)) :
        /\ k.name \notin FkCols(self_ref_fks_of(t)) \cup FkCols(foreign_keys_of(t))
        /\ k.name \in get_unique_columns(t) \cup get_primary_keys(t)}}

\* The table has a column at which the loop over the columns can break.
BreakPossible(t) ==
    \E col \in Range(insertable_columns(t)) :
       /\ col.name \in FkCols(foreign_keys_of(t))
       /\ col.name \in get_unique_columns(t) \ get_primary_keys(t)
       /\ ~col.nullable

\* C16: an attempt at a row adds to used_unique_values of every unique or
\* primary-key column that is no foreign key exactly one value, which was
\* not in the set before, and this value is the one the row gets; only an
\* attempt that breaks off before the column adds nothing.
C16_UniqueValuesAreFresh ==
    [][pc = "col" =>
          \A c \in UniqueSynthCols(table_name) :
             LET before == IF InDom(c, used_unique_values) THEN used_unique_values[c] ELSE {}
                 after == IF InDom(c, used_unique_values') THEN used_unique_values'[c] ELSE {}
             IN  \/ BreakPossible(table_name) /\ after = before
                 \/ \E v \in after \ before :
                       /\ after = before \cup {v}
                       /\ ~is_composite_pk(table_name) => InDom(c, row_data')
                       /\ InDom(c, row_data') => row_data'[c] = v]_vars

\* C16 witness: the values of the generator were used up, and a row of
\* users got an email with a suffix.
C16_Witness ==
    /\ dbname = "users" /\ pc = "insert"
    /\ InDom("email", row_data)
    /\ \E i \in DOMAIN row_data["email"] : i > 1 /\ row_data["email"][i] = 10
    /\ row_data["email"] \in used_unique_values["email"]

\* The foreign keys of a table that take their values from a pool: those
\* on a unique column that is not part of the primary key.
PooledFks(t) ==
    {fk \in Range(foreign_keys_of(t)) :
        fk.col \in get_unique_columns(t) \ get_primary_keys(t)}

\* The column of a table with the given name.
ColumnOf(t, c) == CHOOSE col \in Range(get_table_columns(t)) : col.name = c

\* How often a value occurs in a sequence.
Occurrences(v, seq) == Cardinality({i \in DOMAIN seq : seq[i] = v})

\* C17: for a pooled foreign key, a key of the referenced table is held by
\* at most as many rows as inserted_pks of that table has entries for it;
\* a row holds null there only if the column is nullable, and every row in
\* the store has a value for the column. During the first pass of the table
\* the pool is what is left of the referenced table's inserted_pks: its
\* entries and those the rows hold are together no more than the keys, and
\* a row holds null only when the pool is empty. A table that abandoned a
\* row for an empty pool still gets to its summary line.
C17_PoolValuesAreUsedOnce ==
    \A t \in db_tables : \A fk \in PooledFks(t) :
       LET keys == IF InDom(fk.ref_table, inserted_pks)
                   THEN inserted_pks[fk.ref_table] ELSE << >>
           held == [i \in DOMAIN rows[t] |-> rows[t][i].data[fk.col]]
           pool == IF InDom(fk.col, available_fk_pks) THEN available_fk_pks[fk.col] ELSE << >>
       IN  /\ \A i \in DOMAIN rows[t] : InDom(fk.col, rows[t][i].data)
           /\ \A v \in Range(held) \ {NULL} : Occurrences(v, held) <= Occurrences(v, keys)
           /\ NULL \in Range(held) => ColumnOf(t, fk.col).nullable
           /\ InFirstPass(t) =>
                 /\ \E k \in 0..Len(keys) : pool = SubSeq(keys, k + 1, Len(keys))
                 /\ \A v \in Range(keys) :
                       Occurrences(v, held) + Occurrences(v, pool) <= Occurrences(v, keys)
                 /\ NULL \in Range(held) => pool = << >>
           /\ (pc = "done" /\ t \in pool_exhausted) => t \in Completed

\* C17 witness: the run is complete; a passport took the only person there
\* is, and the next one was abandoned.
C17_Witness ==
    /\ dbname = "passport" /\ pc = "done"
    /\ "passports" \in pool_exhausted
    /\ Len(rows["passports"]) = 1
    /\ rows["passports"][1].data["person_id"] # NULL
    /\ schema["passports"] >= 2

\* C18: an attempt at a row of a table without composite key is the only
\* one of the row. An attempt at a row of a table with a composite key is
\* one of at most MaxAttempts; it is discarded and followed by another, with
\* nothing recorded and nothing sent to the store, or its key combination is
\* new and recorded, or it is the last of MaxAttempts and the row is given
\* up. A run that gave up a row of a table completes with fewer rows of the
\* table than requested.
C18_AttemptsAreBounded ==
    [][/\ pc = "col" =>
             /\ attempt < MaxAttempts
             /\ IF ~is_composite_pk(table_name)
                THEN attempt = 0 /\ pc' = "insert" /\ attempts_exhausted' = attempts_exhausted
                ELSE \/ /\ pc' = "col" /\ attempt' = attempt + 1 /\ attempt' < MaxAttempts
                        /\ row_data' = EmptyRow
                        /\ used_pk_combinations' = used_pk_combinations
                        /\ rows' = rows /\ ops' = ops /\ inserted_pks' = inserted_pks
                        /\ attempts_exhausted' = attempts_exhausted
                     \/ /\ pc' = "insert" /\ row_data' # EmptyRow
                        /\ pk_combo(row_data') \notin used_pk_combinations
                        /\ used_pk_combinations' =
                              used_pk_combinations \cup {pk_combo(row_data')}
                        /\ attempts_exhausted' = attempts_exhausted
                     \/ /\ pc' = "insert" /\ row_data' = EmptyRow
                        /\ attempt = MaxAttempts - 1
                        /\ used_pk_combinations' = used_pk_combinations
                        /\ attempts_exhausted' = attempts_exhausted \cup {table_name}
       /\ pc' = "done" =>
             \A t \in attempts_exhausted' :
                /\ Len(rows'[t]) < schema[t]
                /\ \E k \in DOMAIN output' : output'[k].table = t]_vars

\* C18 witness: the run is complete; enrollments got a row, and a row that
\* it gave up after its last attempt is missing.
C18_Witness ==
    /\ dbname = "enroll" /\ pc = "done"
    /\ "enrollments" \in attempts_exhausted
    /\ rows["enrollments"] # << >>


\* The rules of a catalog that match, by their position.
Hits(rules) == {i \in DOMAIN rules : rules[i].hit}

\* The first of the rules that match.
FirstHit(rules) == rules[CHOOSE i \in Hits(rules) : \A j \in Hits(rules) : i <= j]

\* C19: value synthesis is first-match-wins over a fixed total order.  A call
\* of get_faker_value that got past the null roll returns from the first name
\* rule, in the order of the catalog, that matches the lower-cased column
\* name, and then it does so whatever the type of the column is; it returns
\* from a type rule only when no name rule matches, and then from the first
\* one that matches; it returns the generic word of line 145 only when no
\* type rule matches either.  Every call has a way to return, and the value
\* returned is one of the generator of the rule.
C19_FirstMatchWins ==
    LET names == NameRules(name_lower(synth.column_name))
        types == TypeRules(synth.column_type)
    IN  /\ synth.stage = "called" =>
              FakerReturns(synth.column_name, synth.column_type, synth.nullable) # {}
        /\ synth.stage = "returned" /\ synth.line # 30 =>
              /\ Hits(names) # {} =>
                    /\ synth.line = FirstHit(names).line
                    /\ \A column_type \in ColumnTypes :
                          FakerRule(synth.column_name, column_type) = synth.line
              /\ Hits(names) = {} /\ Hits(types) # {} =>
                    synth.line = FirstHit(types).line
              /\ Hits(names) = {} /\ Hits(types) = {} => synth.line = 145
              /\ synth.value \in FakerPool(synth.line)

\* C19 witness: a call for an INTEGER column named "email_count" returned.
\* Two name rules match the name (email, count) and a type rule matches the
\* type; the value is that of the email rule.
C19_Witness ==
    /\ synth.stage = "returned"
    /\ synth.column_name = "email_count" /\ synth.column_type = "INTEGER"
    /\ Cardinality(Hits(NameRules(name_lower(synth.column_name)))) >= 2
    /\ Hits(TypeRules(synth.column_type)) # {}
    /\ synth.line = 36

\* C20: in every row that seed inserts, a column that is declared
\* non-nullable or belongs to the primary key, and that is no foreign key,
\* holds a value other than None.
C20_NonNullableColumnsHoldValues ==
    \A t \in db_tables : \A i \in DOMAIN rows[t] :
       \A col \in Range(get_table_columns(t)) :
          /\ InDom(col.name, rows[t][i].data)
          /\ ~col.nullable \/ col.name \in get_primary_keys(t)
          /\ col.name \notin FkCols(self_ref_fks_of(t)) \cup FkCols(foreign_keys_of(t))
          => rows[t][i].data[col.name] # NULL

\* The tables that are in the configuration and in the database with a
\* positive row count, in the order of the run.
SeededInOrder == SelectSeq(tables_to_seed, Seeded)

\* The tables of the summary lines, in the order of the lines.
SummaryTables == [k \in DOMAIN output |-> output[k].table]

\* What holds when the completion signal is given: every table that is in
\* the configuration and in the database with a positive row count has been
\* set up and has one summary line, no other table has one, the lines are in
\* the order of the run, and the loop over the tables is past its last table.
ProcessedOnce ==
    /\ SummaryTables = SeededInOrder
    /\ \A t \in db_tables :
          Cardinality({k \in DOMAIN output : output[k].table = t})
             = IF Seeded(t) THEN 1 ELSE 0
    /\ DOMAIN inserted_pks = {t \in db_tables : Seeded(t)}
    /\ ti = Len(tables_to_seed) + 1

\* C21: a run of seed whose configuration names a table and whose graph of
\* foreign keys to other tables has no cycle comes to an end: it reaches the
\* completion signal with every seeded table processed exactly once, or, if
\* the store fails, it stops at the failing statement of a seeded table.
C21_RunTerminates ==
    (DOMAIN schema # {} /\ CycleError \notin topological_sort(build_dependency_graph))
       => <>(\/ pc = "done" /\ ProcessedOnce
             \/ pc = "failed" /\ ti <= Len(tables_to_seed) /\ Seeded(table_name))

\* C21 witness: the run of the shop is complete, with a summary line for
\* customers and one for orders, in that order.
C21_Witness ==
    /\ dbname = "shop" /\ pc = "done"
    /\ Len(output) = 2
    /\ output[1].table = "customers" /\ output[2].table = "orders"

\* What a pooled foreign key of the current table has taken from its pool:
\* the keys of the referenced table that are no longer in the pool.
TakenFromPool(fk) ==
    LET keys == inserted_pks[fk.ref_table]
    IN  SubSeq(keys, 1, Len(keys) - Len(available_fk_pks[fk.col]))

\* Every value taken from a pool of the current table is held by a row of
\* the table, as often as it was taken.
PoolValuesAreInRows ==
    \A fk \in PooledFks(table_name) :
       InDom(fk.col, available_fk_pks) =>
          LET held == [i \in DOMAIN rows[table_name] |-> rows[table_name][i].data[fk.col]]
          IN  \A v \in Range(TakenFromPool(fk)) :
                 Occurrences(v, TakenFromPool(fk)) <= Occurrences(v, held)

\* C22: an attempt that ends without a row to insert (the row is reset after
\* a collision of its key combination, or it is left incomplete at an empty
\* pool) leaves used_unique_values, used_pk_combinations and available_fk_pks
\* as they were before the attempt; and whenever a row of a table is done, the
\* values taken from the table's pools are all held by inserted rows.
C22_DiscardedAttemptLeavesTracker ==
    [][/\ (pc = "col" /\ IsIncomplete(row_data', table_name)) => UNCHANGED tracker
       /\ (pc = "insert" /\ pc' = "row") => PoolValuesAreInRows']_vars

\* The state is a written configuration, and the next is one too.
BuildStep == bld.stage \in {"ready", "built"} /\ bld'.stage = "built"

\* build keeps the count of every table the configuration already has,
\* whether or not the database still has the table.
BuildKeepsCounts == \A table \in DOMAIN schema : InDom(table, schema') /\ schema'[table] = schema[table]

\* build gives default_rows to the tables it discovers, and adds no other table.
BuildDefaultsNewTables ==
    \A table \in DOMAIN schema' \ DOMAIN schema :
        table \in db_tables /\ schema'[table] = bld.default_rows

\* A second build leaves the configuration, version included, as the first wrote it.
SecondBuildChangesNothing ==
    bld.stage = "built" => (schema' = schema /\ bld'.version = bld.version)

\* C23: build is idempotent against an unchanged database.  A run of build
\* keeps the configured row count of every table already in the
\* configuration, tables no longer in the database included, gives
\* default_rows only to newly discovered tables, and a second build with no
\* change in the database leaves the whole configuration, version number
\* included, as the first build wrote it.
C23_BuildIsIdempotent ==
    [][BuildStep => /\ BuildKeepsCounts
                    /\ BuildDefaultsNewTables
                    /\ SecondBuildChangesNothing]_vars

=============================================================================
